---- MODULE Spec2Model ----
(***************************************************************************)
(* Verification model of the AI video script pipeline:                     *)
(*   - IdMappingService.run        (dehydration of the client transcript)  *)
(*   - ChunkerService              (segmentation into blocks)              *)
(*   - ExactSequenceMatcher        (boundary-pair sequence locator)        *)
(*   - pipeline_server             (thread pool of per-concept tasks)      *)
(*   - OutputFormatterService      (rehydration of the results)            *)
(*                                                                         *)
(* Representation of Python values:                                        *)
(*   - a text is a sequence of one-character strings;                      *)
(*   - None / a missing key of an id field is NoId (-1); internal ids are  *)
(*     the naturals 0..N-1 assigned by enumerate(); client ids are         *)
(*     naturals of the client's own choice (0 is a falsy id); the string   *)
(*     ids written by the fallback indexer are negative numbers below NoId *)
(*     (they are never ids of a token);                                    *)
(*   - a speaker_id of None is the string "None";                          *)
(*   - times are integers (tenths of a second);                            *)
(*   - list indices are 0-based as in the source: At(s, i) is s[i].        *)
(***************************************************************************)
EXTENDS Integers, Sequences, FiniteSets, TLC

\* ------------------------------------------------------------------ bounds
MaxRawLen == 3        \* client tokens of a transcript given to the chunker
MaxWordsCfg == 3      \* largest block_max_words configured
MaxBlockLen == 5      \* words of a block given to the matcher
MaxChunkLen == 5      \* words of a chunk given to the matcher
MaxIdRawLen == 3      \* client tokens of a transcript given to dehydration

\* ------------------------------------------------------- Python helpers
NoId == -1
NoneSpeaker == "None"

At(s, i) == s[i + 1]

MinOf(S) == CHOOSE x \in S : \A y \in S : x <= y
MaxOf(S) == CHOOSE x \in S : \A y \in S : x >= y

\* s[a:b] of Python for 0 <= a: the bounds are clamped to the list.
Slice(s, a, b) ==
    LET hi == IF b > Len(s) THEN Len(s) ELSE b
    IN  IF a >= hi THEN <<>> ELSE SubSeq(s, a + 1, hi)

\* str.strip(): the only whitespace character of the model is " ".
Strip(s) ==
    LET idx == {i \in 1..Len(s) : s[i] # " "}
    IN  IF idx = {} THEN <<>> ELSE SubSeq(s, MinOf(idx), MaxOf(idx))

\* "".join([w['text'] for w in word_list])
RECURSIVE JoinTexts(_)
JoinTexts(word_list) ==
    IF word_list = <<>> THEN <<>>
    ELSE Head(word_list).text \o JoinTexts(Tail(word_list))

\* text.strip().endswith(('.', '?', '!'))
EndsWithPunctuation(text) ==
    LET t == Strip(text)
    IN  Len(t) > 0 /\ t[Len(t)] \in {".", "?", "!"}

\* ------------------------------------------------------ IdMappingService
\* Step 1 of run: every original item is followed by a synthetic space
\* object that has no 'id' key.
space_obj(item) ==
    [id |-> NoId, text |-> <<" ">>, start |-> item.end, end |-> item.end,
     type |-> "spacing", speaker_id |-> item.speaker_id]

RECURSIVE temp_list_with_spacing(_)
temp_list_with_spacing(original_items) ==
    IF original_items = <<>> THEN <<>>
    ELSE <<Head(original_items), space_obj(Head(original_items))>>
         \o temp_list_with_spacing(Tail(original_items))

\* Step 2 written with "if original_id:" (a falsy id gets no entry).
BuildIdMapTruthy(temp) ==
    [k \in {i \in 0..(Len(temp) - 1) : At(temp, i).id # NoId /\ At(temp, i).id # 0}
        |-> At(temp, k).id]

\* Step 2 of run: id_map[new_id] = original_id when original_id is not None.
BuildIdMap(temp) ==
    [k \in {i \in 0..(Len(temp) - 1) : At(temp, i).id # NoId} |-> At(temp, k).id]

\* Step 2 of run: the copies of the items with their new sequential ids.
AssignIds(temp) ==
    [p \in 1..Len(temp) |-> [temp[p] EXCEPT !.id = p - 1]]

\* Step 3 of run: the items that are not pauses.
textual_objects_list_pre(full) ==
    SelectSeq(full, LAMBDA item : item.type # "pause")

\* Step 3 of run: a spacing item that is not the last one gets the start of
\* the next surviving item as its end.
final_textual_list(pre) ==
    [i \in 1..Len(pre) |->
        IF pre[i].type = "spacing" /\ i < Len(pre)
        THEN [pre[i] EXCEPT !.end = pre[i + 1].start]
        ELSE pre[i]]

\* The items of textual_objects_list_pre are the very objects of
\* full_objects_list (no copy is made), so the assignment item['end'] = ...
\* is visible through full_objects_list as well.
full_objects_list(temp) ==
    LET full == AssignIds(temp)
        fin  == final_textual_list(textual_objects_list_pre(full))
    IN  [p \in 1..Len(full) |->
            IF full[p].type = "pause" THEN full[p]
            ELSE LET q == CHOOSE q \in 1..Len(fin) : fin[q].id = full[p].id
                 IN  fin[q]]

IdMappingRun(original_items) ==
    LET temp == temp_list_with_spacing(original_items)
        full == full_objects_list(temp)
    IN  [textual_transcript |-> textual_objects_list_pre(full),
         full_objects_transcript |-> full,
         id_map |-> BuildIdMap(temp)]

\* -------------------------------------------------------- ChunkerService
\* __init__: soft_word_limit = int(block_max_words * soft_limit_ratio); the
\* ratio is given in tenths.
SoftWordLimit(block_max_words, ratio_tenths) ==
    (block_max_words * ratio_tenths) \div 10

IncludeTrailingSpaceIfPresent(index, words) ==
    IF index + 1 < Len(words) /\ At(words, index + 1).type = "spacing"
    THEN index + 1
    ELSE index

\* First loop of _find_block_end: the speaker_id of the first 'word' item at
\* or after start_index; None when there is no such item.
RECURSIVE InitialSpeaker(_, _)
InitialSpeaker(words, i) ==
    IF i >= Len(words) THEN NoneSpeaker
    ELSE IF At(words, i).type = "word" THEN At(words, i).speaker_id
    ELSE InitialSpeaker(words, i + 1)

\* The loop with the soft limit compared inclusively (word_count >= limit).
RECURSIVE FindBlockEndLoopSoftInclusive(_, _, _, _, _)
FindBlockEndLoopSoftInclusive(words, i, word_count, initial_speaker, cfg) ==
    IF i >= Len(words) THEN Len(words) - 1
    ELSE IF At(words, i).type # "word"
         THEN FindBlockEndLoopSoftInclusive(words, i + 1, word_count, initial_speaker, cfg)
    ELSE IF At(words, i).speaker_id # initial_speaker THEN i - 1
    ELSE IF word_count + 1 >= cfg.soft_word_limit
            /\ EndsWithPunctuation(At(words, i).text)
         THEN IncludeTrailingSpaceIfPresent(i, words)
    ELSE IF word_count + 1 >= cfg.block_max_words
         THEN IncludeTrailingSpaceIfPresent(i, words)
    ELSE FindBlockEndLoopSoftInclusive(words, i + 1, word_count + 1, initial_speaker, cfg)

\* Second loop of _find_block_end, from item i with word_count words seen.
RECURSIVE FindBlockEndLoop(_, _, _, _, _)
FindBlockEndLoop(words, i, word_count, initial_speaker, cfg) ==
    IF i >= Len(words) THEN Len(words) - 1
    ELSE IF At(words, i).type # "word"
         THEN FindBlockEndLoop(words, i + 1, word_count, initial_speaker, cfg)
    ELSE IF At(words, i).speaker_id # initial_speaker THEN i - 1
    ELSE IF word_count + 1 > cfg.soft_word_limit
            /\ EndsWithPunctuation(At(words, i).text)
         THEN IncludeTrailingSpaceIfPresent(i, words)
    ELSE IF word_count + 1 >= cfg.block_max_words
         THEN IncludeTrailingSpaceIfPresent(i, words)
    ELSE FindBlockEndLoop(words, i + 1, word_count + 1, initial_speaker, cfg)

FindBlockEnd(words, start_index, cfg) ==
    LET initial_speaker == InitialSpeaker(words, start_index)
    IN  IF initial_speaker = NoneSpeaker THEN Len(words) - 1
        ELSE FindBlockEndLoop(words, start_index, 0, initial_speaker, cfg)

\* _create_block_object; NoBlock is the None it returns.  block_id stands
\* for f"block_{block_id:03d}".
NoBlock == [block_id |-> -1]

ActualWords(word_list) == SelectSeq(word_list, LAMBDA w : w.type = "word")

CreateBlockObject(word_list, block_id) ==
    LET actual_words == ActualWords(word_list)
        full_text == Strip(JoinTexts(word_list))
    IN  IF actual_words = <<>> THEN NoBlock
        ELSE IF full_text = <<>> THEN NoBlock
        ELSE [block_id |-> block_id,
              speaker |-> actual_words[1].speaker_id,
              start_time |-> word_list[1].start,
              end_time |-> word_list[Len(word_list)].end,
              text |-> full_text,
              words |-> word_list]

\* -------------------------------------------------- ExactSequenceMatcher
NotFound == [found |-> FALSE, start_word_index |-> NoId, end_word_index |-> NoId]

Match(start_word_id, end_word_id) ==
    [found |-> TRUE, start_word_index |-> start_word_id,
     end_word_index |-> end_word_id]

TextList(words) == [p \in 1..Len(words) |-> words[p].text]

\* list.index written to return the last position of x instead of the first.
RECURSIVE ListIndexLast(_, _, _)
ListIndexLast(list, x, i) ==
    IF i >= Len(list) THEN -1
    ELSE LET later == ListIndexLast(list, x, i + 1)
         IN  IF later # -1 THEN later
             ELSE IF At(list, i) = x THEN i ELSE -1

\* list.index(x): position of the first element equal to x, -1 for ValueError.
RECURSIVE ListIndex(_, _, _)
ListIndex(list, x, i) ==
    IF i >= Len(list) THEN -1
    ELSE IF At(list, i) = x THEN i
    ELSE ListIndex(list, x, i + 1)

\* The loop without its second check (the last pair is never compared).
RECURSIVE BoundaryLoopFirstPairOnly(_, _, _)
BoundaryLoopFirstPairOnly(chunk_words, block_words, i) ==
    LET chunk_len == Len(chunk_words)
        block_text_list == TextList(block_words)
        first_pair == Slice(TextList(chunk_words), 0, 2)
    IN  IF i >= Len(block_text_list) - chunk_len + 1 THEN NotFound
        ELSE IF Slice(block_text_list, i, i + 2) = first_pair
             THEN Match(At(block_words, i).id,
                        At(block_words, i + chunk_len - 1).id)
        ELSE BoundaryLoopFirstPairOnly(chunk_words, block_words, i + 1)

\* The loop over range(len(block_text_list) - chunk_len): the last start
\* position is never tried.
RECURSIVE BoundaryLoopShortRange(_, _, _)
BoundaryLoopShortRange(chunk_words, block_words, i) ==
    LET chunk_len == Len(chunk_words)
        chunk_text_list == TextList(chunk_words)
        block_text_list == TextList(block_words)
        first_pair == Slice(chunk_text_list, 0, 2)
        last_pair == Slice(chunk_text_list, chunk_len - 2, chunk_len)
        last_pair_start_index == i + chunk_len - 2
    IN  IF i >= Len(block_text_list) - chunk_len THEN NotFound
        ELSE IF Slice(block_text_list, i, i + 2) = first_pair
                /\ Slice(block_text_list, last_pair_start_index,
                         last_pair_start_index + 2) = last_pair
             THEN Match(At(block_words, i).id,
                        At(block_words, i + chunk_len - 1).id)
        ELSE BoundaryLoopShortRange(chunk_words, block_words, i + 1)

\* The loop with last_pair = chunk_text_list[-1:]: only the last word of the
\* chunk is compared at the far boundary.
RECURSIVE BoundaryLoopLastWordOnly(_, _, _)
BoundaryLoopLastWordOnly(chunk_words, block_words, i) ==
    LET chunk_len == Len(chunk_words)
        chunk_text_list == TextList(chunk_words)
        block_text_list == TextList(block_words)
        first_pair == Slice(chunk_text_list, 0, 2)
    IN  IF i >= Len(block_text_list) - chunk_len + 1 THEN NotFound
        ELSE IF Slice(block_text_list, i, i + 2) = first_pair
                /\ At(block_text_list, i + chunk_len - 1)
                       = At(chunk_text_list, chunk_len - 1)
             THEN Match(At(block_words, i).id,
                        At(block_words, i + chunk_len - 1).id)
        ELSE BoundaryLoopLastWordOnly(chunk_words, block_words, i + 1)

\* The for loop over range(len(block_text_list) - chunk_len + 1), from i.
RECURSIVE BoundaryLoop(_, _, _)
BoundaryLoop(chunk_words, block_words, i) ==
    LET chunk_len == Len(chunk_words)
        chunk_text_list == TextList(chunk_words)
        block_text_list == TextList(block_words)
        first_pair == Slice(chunk_text_list, 0, 2)
        last_pair == Slice(chunk_text_list, chunk_len - 2, chunk_len)
        expected_distance == chunk_len - 2
        last_pair_start_index == i + expected_distance
    IN  IF i >= Len(block_text_list) - chunk_len + 1 THEN NotFound
        ELSE IF Slice(block_text_list, i, i + 2) = first_pair
                /\ Slice(block_text_list, last_pair_start_index,
                         last_pair_start_index + 2) = last_pair
             THEN Match(At(block_words, i).id,
                        At(block_words, i + chunk_len - 1).id)
        ELSE BoundaryLoop(chunk_words, block_words, i + 1)

\* find_match without the tier for single-word chunks: they fall through to
\* "return None".
find_matchWithoutSingleWordTier(chunk_words, block_words) ==
    IF chunk_words = <<>> \/ block_words = <<>> THEN NotFound
    ELSE IF Len(chunk_words) = 1 THEN NotFound
    ELSE BoundaryLoop(chunk_words, block_words, 0)

find_match(chunk_words, block_words) ==
    LET chunk_len == Len(chunk_words)
    IN  IF chunk_words = <<>> \/ block_words = <<>> THEN NotFound
        ELSE IF chunk_len = 1
             THEN LET match_index ==
                          ListIndex(TextList(block_words), chunk_words[1].text, 0)
                  IN  IF match_index = -1 THEN NotFound
                      ELSE Match(At(block_words, match_index).id,
                                 At(block_words, match_index).id)
        ELSE BoundaryLoop(chunk_words, block_words, 0)

\* _chunk_words_into_blocks: current_word_index = end_index + 1
NextWordIndexSkips(end_index) == end_index + 2

\* _chunk_words_into_blocks: current_word_index = end_index
NextWordIndexRepeatsEnd(end_index) == end_index

NextWordIndex(end_index) == end_index + 1

\* run / _chunk_words_into_blocks as one function: the blocks emitted from
\* current_word_index on.
RECURSIVE ChunkWordsIntoBlocks(_, _, _, _)
ChunkWordsIntoBlocks(words, cur, counter, cfg) ==
    IF cur >= Len(words) THEN <<>>
    ELSE LET end_index == FindBlockEnd(words, cur, cfg)
             block_obj == CreateBlockObject(Slice(words, cur, end_index + 1), counter)
         IN  IF block_obj # NoBlock
             THEN <<block_obj>> \o ChunkWordsIntoBlocks(words, NextWordIndex(end_index), counter + 1, cfg)
             ELSE ChunkWordsIntoBlocks(words, NextWordIndex(end_index), counter, cfg)

ChunkerRun(words, cfg) ==
    IF words = <<>> THEN <<>> ELSE ChunkWordsIntoBlocks(words, 0, 0, cfg)

\* ------------------------------------------------------------ text_utils
Punctuation == {".", "?", "!", ","}      \* the characters of string.punctuation in use

Lower(c) == IF c = "A" THEN "a" ELSE IF c = "B" THEN "b" ELSE c

\* normalize_word: lowercase, then drop every punctuation character.
normalize_word(text) ==
    LET lowered == [i \in 1..Len(text) |-> Lower(text[i])]
    IN  SelectSeq(lowered, LAMBDA c : c \notin Punctuation)

\* str.split(): the maximal runs of non-whitespace characters; cur is the
\* run being read.
RECURSIVE SplitFrom(_, _)
SplitFrom(text, cur) ==
    IF text = <<>> THEN (IF cur = <<>> THEN <<>> ELSE <<cur>>)
    ELSE IF Head(text) = " "
         THEN (IF cur = <<>> THEN <<>> ELSE <<cur>>) \o SplitFrom(Tail(text), <<>>)
    ELSE SplitFrom(Tail(text), Append(cur, Head(text)))

Split(text) == SplitFrom(text, <<>>)

\* ------------------------------------------------- OfflineIndexerService
\* A chunk is {chunk_text, source_block_id, start_word_index?, end_word_index?};
\* NoId in an index field is the missing key, NoBlockId a missing
\* source_block_id.
NoBlockId == -1

BlockLookup(blocks_data, block_id) ==
    LET hits == {b \in 1..Len(blocks_data) : blocks_data[b].block_id = block_id}
    IN  IF hits = {} THEN NoBlock ELSE blocks_data[MaxOf(hits)]

\* The block's items taken without the filter on type.
NormalizedBlockWordsKeepsSpacing(source_block) ==
    LET kept == source_block.words
    IN  [p \in 1..Len(kept) |-> [id |-> kept[p].id, text |-> normalize_word(kept[p].text)]]

NormalizedBlockWords(source_block) ==
    LET kept == SelectSeq(source_block.words, LAMBDA w : w.type # "spacing")
    IN  [p \in 1..Len(kept) |-> [id |-> kept[p].id, text |-> normalize_word(kept[p].text)]]

NormalizedChunkWords(chunk_text) ==
    LET chunk_words_list == Split(chunk_text)
    IN  [p \in 1..Len(chunk_words_list) |->
            [id |-> p - 1, text |-> normalize_word(chunk_words_list[p])]]

FindIndicesForChunk(chunk, blocks_data) ==
    IF chunk.source_block_id = NoBlockId \/ chunk.chunk_text = <<>> THEN NotFound
    ELSE LET source_block == BlockLookup(blocks_data, chunk.source_block_id)
         IN  IF source_block = NoBlock THEN NotFound
             ELSE find_match(NormalizedChunkWords(chunk.chunk_text),
                             NormalizedBlockWords(source_block))

\* Values of a chunk that are not of the type the extractor promises: a
\* chunk_text that is a number, a source_block_id that is a list.
NumberText == <<"<number>">>
ListBlockId == -2

\* _find_indices_for_chunk raises: the lookup of an unhashable
\* source_block_id (TypeError), or chunk_text.split() on a number once the
\* source block has been found (AttributeError).
ChunkProcessingRaises(chunk, blocks_data) ==
    /\ chunk.source_block_id # NoBlockId
    /\ chunk.chunk_text # <<>>
    /\ \/ chunk.source_block_id = ListBlockId
       \/ /\ BlockLookup(blocks_data, chunk.source_block_id) # NoBlock
          /\ chunk.chunk_text = NumberText

\* The except clause of run raises: chunk.get('chunk_text', '')[:30] on a
\* number (TypeError).
HandlerRaises(chunk) == chunk.chunk_text = NumberText

\* The body of the loop over the chunks of one concept: chunk.update(indices)
\* when indices were found; a chunk whose processing raised is appended as
\* it is.
IndexChunk(chunk, blocks_data) ==
    IF ChunkProcessingRaises(chunk, blocks_data) THEN chunk
    ELSE LET indices == FindIndicesForChunk(chunk, blocks_data)
         IN  IF indices.found
             THEN [chunk EXCEPT !.start_word_index = indices.start_word_index,
                                !.end_word_index = indices.end_word_index]
             ELSE chunk

\* OfflineIndexerService.run on the script_chunks of one concept.
OfflineIndexChunks(script_chunks, blocks_data) ==
    [q \in 1..Len(script_chunks) |-> IndexChunk(script_chunks[q], blocks_data)]

\* The chunks of one concept at which an exception leaves run.
EscapingChunks(script_chunks, blocks_data) ==
    {q \in 1..Len(script_chunks) :
        /\ ChunkProcessingRaises(script_chunks[q], blocks_data)
        /\ HandlerRaises(script_chunks[q])}

\* The script_chunks of a concept when an exception leaves run at chunk
\* first: the chunks before it were updated in place.
IndexChunksBefore(script_chunks, blocks_data, first) ==
    [q \in 1..Len(script_chunks) |->
        IF q < first THEN IndexChunk(script_chunks[q], blocks_data)
        ELSE script_chunks[q]]

\* OfflineIndexerService.run over scripts_data: whether an exception left
\* run, and scripts_data as it is then.
RECURSIVE OfflineIndexerRun(_, _)
OfflineIndexerRun(scripts_data, blocks_data) ==
    IF scripts_data = <<>> THEN [raised |-> FALSE, scripts_data |-> <<>>]
    ELSE LET concept == Head(scripts_data)
             escaping == EscapingChunks(concept.script_chunks, blocks_data)
         IN  IF escaping # {}
             THEN [raised |-> TRUE,
                   scripts_data |->
                       <<[concept EXCEPT !.script_chunks =
                             IndexChunksBefore(@, blocks_data, MinOf(escaping))]>>
                       \o Tail(scripts_data)]
             ELSE LET rest == OfflineIndexerRun(Tail(scripts_data), blocks_data)
                  IN  [raised |-> rest.raised,
                       scripts_data |->
                           <<[concept EXCEPT !.script_chunks =
                                 OfflineIndexChunks(@, blocks_data)]>>
                           \o rest.scripts_data]

\* ---------------------------------------------- LlmVerbatimIndexerService
MockStartId == -101     \* "c101_mock_id"
MockEndId == -105       \* "c105_mock_id"

\* run on the script_chunks of one concept: a chunk that has start_word_index
\* is kept, any other gets the mock indices.
FallbackIndexChunks(script_chunks) ==
    [q \in 1..Len(script_chunks) |->
        IF script_chunks[q].start_word_index # NoId THEN script_chunks[q]
        ELSE [script_chunks[q] EXCEPT !.start_word_index = MockStartId,
                                      !.end_word_index = MockEndId]]

\* The test written with all(...) instead of any(...).
AllChunksUnindexed(script_chunks) ==
    \A q \in 1..Len(script_chunks) : script_chunks[q].start_word_index = NoId

\* any('start_word_index' not in chunk for chunk in script_chunks)
AnyChunkUnindexed(script_chunks) ==
    \E q \in 1..Len(script_chunks) : script_chunks[q].start_word_index = NoId

\* ------------------------------------------------ OutputFormatterService
\* id_to_position_map.get(id): -1 stands for None.
PositionOf(all_objects_list, id) ==
    LET hits == {p \in 1..Len(all_objects_list) : all_objects_list[p].id = id}
    IN  IF hits = {} THEN -1 ELSE MaxOf(hits) - 1

\* id_map.get(id)
IdMapGet(id_map, id) == IF id \in DOMAIN id_map THEN id_map[id] ELSE NoId

\* Step 3 written as id_map.get(obj['id'], obj['id']) over the whole slice: an
\* id without entry is passed on as it is.
RECURSIVE RemappedIdsKeepsUnmapped(_, _)
RemappedIdsKeepsUnmapped(full_slice, id_map) ==
    IF full_slice = <<>> THEN <<>>
    ELSE <<IF Head(full_slice).id \in DOMAIN id_map
           THEN id_map[Head(full_slice).id] ELSE Head(full_slice).id>>
         \o RemappedIdsKeepsUnmapped(Tail(full_slice), id_map)

\* The ids of a slice that are keys of id_map, remapped.
RECURSIVE RemappedIds(_, _)
RemappedIds(full_slice, id_map) ==
    IF full_slice = <<>> THEN <<>>
    ELSE (IF Head(full_slice).id \in DOMAIN id_map
          THEN <<id_map[Head(full_slice).id]>> ELSE <<>>)
         \o RemappedIds(Tail(full_slice), id_map)

\* The loop with "break" where the code has "continue": the first chunk
\* that is skipped ends the loop.
RECURSIVE FormatChunksStopsAtSkipped(_, _, _, _)
FormatChunksStopsAtSkipped(script_chunks, all_objects_list, id_map, acc) ==
    IF script_chunks = <<>> THEN acc
    ELSE LET chunk == Head(script_chunks)
             start_word_id == chunk.start_word_index
             end_word_id == chunk.end_word_index
             start_pos == PositionOf(all_objects_list, start_word_id)
             end_pos == PositionOf(all_objects_list, end_word_id)
             full_slice == Slice(all_objects_list, start_pos, end_pos + 1)
         IN  IF start_word_id = NoId \/ end_word_id = NoId THEN acc
             ELSE IF start_pos = -1 \/ end_pos = -1 THEN acc
             ELSE IF full_slice = <<>> THEN acc
             ELSE FormatChunksStopsAtSkipped(Tail(script_chunks), all_objects_list, id_map,
                    [total_duration |-> acc.total_duration
                         + (full_slice[Len(full_slice)].end - full_slice[1].start),
                     chunk_index_lists |-> Append(acc.chunk_index_lists,
                         SelectSeq(RemappedIds(full_slice, id_map), LAMBDA rid : rid # NoId)),
                     remapped_script_chunks |-> Append(acc.remapped_script_chunks,
                         [chunk_text |-> chunk.chunk_text,
                          start_word_index |-> IdMapGet(id_map, start_word_id),
                          end_word_index |-> IdMapGet(id_map, end_word_id)])])

\* The loop over concept['script_chunks'] of _format_single_concept; acc
\* holds total_duration, chunk_index_lists and remapped_script_chunks.
RECURSIVE FormatChunks(_, _, _, _)
FormatChunks(script_chunks, all_objects_list, id_map, acc) ==
    IF script_chunks = <<>> THEN acc
    ELSE LET chunk == Head(script_chunks)
             start_word_id == chunk.start_word_index
             end_word_id == chunk.end_word_index
             start_pos == PositionOf(all_objects_list, start_word_id)
             end_pos == PositionOf(all_objects_list, end_word_id)
             full_slice == Slice(all_objects_list, start_pos, end_pos + 1)
             rest == Tail(script_chunks)
         IN  IF start_word_id = NoId \/ end_word_id = NoId
             THEN FormatChunks(rest, all_objects_list, id_map, acc)
             ELSE IF start_pos = -1 \/ end_pos = -1
             THEN FormatChunks(rest, all_objects_list, id_map, acc)
             ELSE IF full_slice = <<>>
             THEN FormatChunks(rest, all_objects_list, id_map, acc)
             ELSE FormatChunks(rest, all_objects_list, id_map,
                    [total_duration |-> acc.total_duration
                         + (full_slice[Len(full_slice)].end - full_slice[1].start),
                     chunk_index_lists |-> Append(acc.chunk_index_lists,
                         SelectSeq(RemappedIds(full_slice, id_map), LAMBDA rid : rid # NoId)),
                     remapped_script_chunks |-> Append(acc.remapped_script_chunks,
                         [chunk_text |-> chunk.chunk_text,
                          start_word_index |-> IdMapGet(id_map, start_word_id),
                          end_word_index |-> IdMapGet(id_map, end_word_id)])])

FormatSingleConcept(concept, all_objects_list, id_map) ==
    LET acc == FormatChunks(concept.script_chunks, all_objects_list, id_map,
                   [total_duration |-> 0, chunk_index_lists |-> <<>>,
                    remapped_script_chunks |-> <<>>])
    IN  [title |-> concept.title,
         title_id |-> concept.title_id,
         logline |-> concept.logline,
         script |-> concept.script,
         status |-> "success",
         duration_seconds |-> acc.total_duration,
         chunk_index_lists |-> acc.chunk_index_lists,
         script_chunks |-> acc.remapped_script_chunks,
         evaluation |-> concept.evaluation,
         recommendations |-> concept.recommendations]

\* concept.get('error_message', 'An unknown error occurred.'); "none" is the
\* missing key.
ErrorMessageOf(concept) ==
    IF concept.error_message = "none" THEN "An unknown error occurred."
    ELSE concept.error_message

\* The loop body with the error fields added to the formatted concept
\* instead of replacing it.
FormatConceptKeepsChunks(concept, all_objects_list, id_map) ==
    IF concept.status = "error"
    THEN [title |-> concept.title,
          title_id |-> concept.title_id,
          logline |-> concept.logline,
          status |-> "error",
          error_message |-> ErrorMessageOf(concept),
          script_chunks |->
              FormatSingleConcept(concept, all_objects_list, id_map).script_chunks]
    ELSE FormatSingleConcept(concept, all_objects_list, id_map)

\* The body of the loop of run for one concept.
FormatConcept(concept, all_objects_list, id_map) ==
    IF concept.status = "error"
    THEN [title |-> concept.title,
          title_id |-> concept.title_id,
          logline |-> concept.logline,
          status |-> "error",
          error_message |-> ErrorMessageOf(concept)]
    ELSE FormatSingleConcept(concept, all_objects_list, id_map)

\* run written with the error branch ending in "continue" before the append:
\* a failed concept leaves no result.
RECURSIVE OutputFormatterRunDropsErrors(_, _, _)
OutputFormatterRunDropsErrors(pipeline_results, all_objects_list, id_map) ==
    IF pipeline_results = <<>> THEN <<>>
    ELSE (IF Head(pipeline_results).status = "error" THEN <<>>
          ELSE <<FormatSingleConcept(Head(pipeline_results), all_objects_list, id_map)>>)
         \o OutputFormatterRunDropsErrors(Tail(pipeline_results), all_objects_list, id_map)

\* OutputFormatterService.run: one client result per pipeline result.
RECURSIVE OutputFormatterRun(_, _, _)
OutputFormatterRun(pipeline_results, all_objects_list, id_map) ==
    IF pipeline_results = <<>> THEN <<>>
    ELSE <<FormatConcept(Head(pipeline_results), all_objects_list, id_map)>>
         \o OutputFormatterRun(Tail(pipeline_results), all_objects_list, id_map)

\* ---------------------------------------------------------------- state
VARIABLES
    \* ChunkerService.run on a dehydrated transcript
    ck_raw,               \* the client's items (elementsData['words'])
    ck_cfg,               \* block_max_words and soft_word_limit of the service
    ck_pc,                \* "raw", "chunking" or "done"
    ck_words,             \* the textual transcript's words
    current_word_index,   \* cursor of _chunk_words_into_blocks
    block_counter,        \* block_counter of _chunk_words_into_blocks
    blocks,               \* blocks emitted so far
    \* ExactSequenceMatcher.find_match
    m_block_words,        \* normalized block words {id, text}
    m_chunk_words,        \* normalized chunk words {id, text}
    m_pc,                 \* "call" or "returned"
    m_result,             \* value returned by find_match
    \* IdMappingService.run
    im_raw,               \* the client's items
    im_pc,                \* "call" or "returned"
    im_out,               \* the tuple returned by run
    \* generate_shorts and its pool of process_single_concept tasks
    request,              \* request_context.num_concepts_requested
    drv,                  \* position of the request handler
    response,             \* HTTP status returned, 0 while there is none
    concepts,             \* list returned by the concept generator (references)
    rec,                  \* the concept dicts, by reference
    pc,                   \* position of each submitted task
    future,               \* result of each task's future (a reference), 0 while pending
    final_results,        \* final_results of generate_shorts (references)
    collected,            \* indices of the futures consumed by the result loop
    client_output,        \* what the formatter returned
    raised,               \* tasks whose stage raised
    finish_order,         \* the tasks in the order in which they returned
    writers,              \* per concept dict, the tasks that wrote one of its fields
    term_writes,          \* per concept dict, how often status was set to success/error
    shared,               \* blocks_data, the dehydrated transcripts and id_map
    exc,                  \* per task, the stage whose exception it has caught
    returned_status,      \* per task, the status of the dict when the task returned it
    \* OutputFormatterService.run
    f_raw,                \* the client's items
    f_full,               \* full_objects_transcript['words']
    f_id_map,             \* id_map
    f_results,            \* pipeline_results
    f_pc,                 \* "raw", "call" or "returned"
    f_out,                \* client_results
    \* one concept from the client's transcript to the client's result
    e_raw,                \* the client's items
    e_sel,                \* <<i, j>>: the words the concept's chunk quotes
    e_pc,                 \* next step of the request
    e_dehydrated,         \* what IdMappingService.run returned
    e_blocks,             \* blocks_data
    e_results,            \* the concept, as a list of pipeline results
    e_out,                \* client_output
    \* OfflineIndexerService.run
    ix_scripts,           \* scripts_data as given to run
    ix_pc,                \* "call", "returned" or "raised"
    ix_out,               \* scripts_data when run has ended
    \* the thread pool of generate_shorts and its units
    pl_units,             \* number of concepts the generator returned
    pl_stuck,             \* the unit whose external call never returns, 0 for none
    pl_pc,                \* per submitted unit: "queued", "started", "calling" or "returned"
    pl_drv,               \* position of the request handler
    pl_collected          \* number of futures the result loop has consumed

chunkVars == <<ck_raw, ck_cfg, ck_pc, ck_words, current_word_index, block_counter, blocks>>
matchVars == <<m_block_words, m_chunk_words, m_pc, m_result>>
idVars == <<im_raw, im_pc, im_out>>
pipeVars == <<request, drv, response, concepts, rec, pc, future, final_results,
              collected, client_output, raised, finish_order, writers, term_writes,
              shared, exc, returned_status>>

fmtVars == <<f_raw, f_full, f_id_map, f_results, f_pc, f_out>>

e2eVars == <<e_raw, e_sel, e_pc, e_dehydrated, e_blocks, e_results, e_out>>

ixVars == <<ix_scripts, ix_pc, ix_out>>

poolVars == <<pl_units, pl_stuck, pl_pc, pl_drv, pl_collected>>

vars == <<chunkVars, matchVars, idVars, pipeVars, fmtVars, e2eVars, ixVars, poolVars>>

\* Values of the variables of the components a specification does not run.
ChunkIdle ==
    /\ ck_raw = <<>> /\ ck_cfg = [block_max_words |-> 1, soft_word_limit |-> 0]
    /\ ck_pc = "idle" /\ ck_words = <<>> /\ current_word_index = 0
    /\ block_counter = 0 /\ blocks = <<>>
MatchIdle ==
    /\ m_block_words = <<>> /\ m_chunk_words = <<>> /\ m_pc = "idle"
    /\ m_result = NotFound
IdIdle ==
    /\ im_raw = <<>> /\ im_pc = "idle" /\ im_out = IdMappingRun(<<>>)

\* The shared data before Stage 1 has run.
NoShared ==
    [blocks_data |-> <<>>, textual_transcript |-> <<>>,
     full_objects_transcript |-> <<>>, id_map |-> <<>>]

PipeIdle ==
    /\ request = 0 /\ drv = "idle" /\ response = 0 /\ concepts = <<>>
    /\ rec = <<>> /\ pc = <<>> /\ future = <<>> /\ final_results = <<>>
    /\ collected = <<>> /\ client_output = <<>> /\ raised = {}
    /\ finish_order = <<>> /\ writers = <<>> /\ term_writes = <<>>
    /\ shared = NoShared /\ exc = <<>> /\ returned_status = <<>>

FmtIdle ==
    /\ f_raw = <<>> /\ f_full = <<>> /\ f_id_map = <<>> /\ f_results = <<>>
    /\ f_pc = "idle" /\ f_out = <<>>

E2eIdle ==
    /\ e_raw = <<>> /\ e_sel = <<0, 0>> /\ e_pc = "idle"
    /\ e_dehydrated = IdMappingRun(<<>>) /\ e_blocks = <<>>
    /\ e_results = <<>> /\ e_out = <<>>

IxIdle ==
    /\ ix_scripts = <<>> /\ ix_pc = "idle" /\ ix_out = <<>>

PoolIdle ==
    /\ pl_units = 0 /\ pl_stuck = 0 /\ pl_pc = <<>> /\ pl_drv = "idle"
    /\ pl_collected = 0

\* All sequences over S of length 0..n.
SeqsUpTo(S, n) == UNION {[1..k -> S] : k \in 0..n}

\* ------------------------------------------- specification of the chunker
SoftRatioTenths == {2, 5, 8}     \* soft_limit_ratio 0.2, 0.5 and the default 0.8

WordTexts == {<<"a">>, <<"b", ".">>, <<" ">>}
Speakers == {"A", "B", NoneSpeaker}

\* The shapes of a client item that the chunker can tell apart.
CkShapes ==
    [type : {"word"}, text : WordTexts, speaker_id : Speakers]
    \cup {[type |-> "spacing", text |-> <<" ">>, speaker_id |-> "A"],
          [type |-> "pause", text |-> <<>>, speaker_id |-> "A"]}

\* The client item of shape sh at position p (1-based): ids and times follow
\* the position.
CkItem(sh, p) ==
    [id |-> 100 + p, text |-> sh.text, start |-> 10 * (p - 1),
     end |-> 10 * (p - 1) + 8, type |-> sh.type, speaker_id |-> sh.speaker_id]

CkInit ==
    /\ \E shapes \in SeqsUpTo(CkShapes, MaxRawLen) :
          ck_raw = [p \in 1..Len(shapes) |-> CkItem(shapes[p], p)]
    /\ \E m \in 1..MaxWordsCfg, r \in SoftRatioTenths :
          ck_cfg = [block_max_words |-> m, soft_word_limit |-> SoftWordLimit(m, r)]
    /\ ck_pc = "raw"
    /\ ck_words = <<>>
    /\ current_word_index = 0
    /\ block_counter = 0
    /\ blocks = <<>>
    /\ MatchIdle /\ IdIdle /\ PipeIdle /\ FmtIdle /\ E2eIdle /\ IxIdle /\ PoolIdle

\* generate_shorts, Stage 1: the textual transcript is what the chunker gets.
CkDehydrate ==
    /\ ck_pc = "raw"
    /\ ck_words' = IdMappingRun(ck_raw).textual_transcript
    /\ ck_pc' = "chunking"
    /\ UNCHANGED <<ck_raw, ck_cfg, current_word_index, block_counter, blocks>>
    /\ UNCHANGED <<matchVars, idVars, pipeVars, fmtVars, e2eVars, ixVars, poolVars>>

\* One iteration of the while loop of _chunk_words_into_blocks.
CkBlockStep ==
    /\ ck_pc = "chunking"
    /\ current_word_index < Len(ck_words)
    /\ LET end_index == FindBlockEnd(ck_words, current_word_index, ck_cfg)
           block_words == Slice(ck_words, current_word_index, end_index + 1)
           block_obj == CreateBlockObject(block_words, block_counter)
       IN  /\ IF block_obj # NoBlock
              THEN /\ blocks' = Append(blocks, block_obj)
                   /\ block_counter' = block_counter + 1
              ELSE UNCHANGED <<blocks, block_counter>>
           /\ current_word_index' = NextWordIndex(end_index)
    /\ UNCHANGED <<ck_raw, ck_cfg, ck_pc, ck_words>>
    /\ UNCHANGED <<matchVars, idVars, pipeVars, fmtVars, e2eVars, ixVars, poolVars>>

\* The while loop ends (run returns at once for an empty word list).
CkReturn ==
    /\ ck_pc = "chunking"
    /\ current_word_index >= Len(ck_words)
    /\ ck_pc' = "done"
    /\ UNCHANGED <<ck_raw, ck_cfg, ck_words, current_word_index, block_counter, blocks>>
    /\ UNCHANGED <<matchVars, idVars, pipeVars, fmtVars, e2eVars, ixVars, poolVars>>

CkNext == CkDehydrate \/ CkBlockStep \/ CkReturn

SpecChunker == CkInit /\ [][CkNext]_vars

\* Word-type tokens of the emitted blocks, read in block order.
RECURSIVE EmittedWords(_)
EmittedWords(bs) ==
    IF bs = <<>> THEN <<>>
    ELSE ActualWords(Head(bs).words) \o EmittedWords(Tail(bs))

SeqRange(s) == {s[i] : i \in 1..Len(s)}

\* C4: no block emitted by ChunkerService.run contains more than
\* block_max_words word-type tokens.
C4_BlockWithinMaxWords ==
    \A b \in 1..Len(blocks) :
        Len(ActualWords(blocks[b].words)) <= ck_cfg.block_max_words

\* C5: all word-type tokens of an emitted block share the same speaker_id
\* (a string or None).
C5_BlockSingleSpeaker ==
    \A b \in 1..Len(blocks) :
        \A v, w \in SeqRange(ActualWords(blocks[b].words)) :
            v.speaker_id = w.speaker_id

\* C6 as stated: when segmentation has returned, the word-type tokens of the
\* emitted blocks, in block order, are exactly the input's word-type tokens
\* in input order.
C6_AllWordsEmittedInOrder ==
    ck_pc = "done" => EmittedWords(blocks) = ActualWords(ck_words)

\* C6 amended: the emitted word-type tokens are the input's word-type tokens
\* in input order without duplicates, except that word tokens whose text
\* trims to empty are missing when their whole segment was discarded.
C6_WordsEmittedExceptBlank ==
    ck_pc = "done" =>
        LET out == EmittedWords(blocks)
            inp == ActualWords(ck_words)
        IN  /\ out = SelectSeq(inp, LAMBDA w : w \in SeqRange(out))
            /\ \A w \in SeqRange(inp) :
                   w \notin SeqRange(out) => Strip(w.text) = <<>>

\* A segment holding blank words was discarded and another block was emitted.
C6_Witness ==
    /\ ck_pc = "done"
    /\ Len(blocks) >= 1
    /\ \E w \in SeqRange(ActualWords(ck_words)) :
           w \notin SeqRange(EmittedWords(blocks))

\* The client's transcript is a single run of word-type tokens of one speaker
\* with fewer than block_max_words words.
SingleSpeakerRun ==
    /\ ck_raw # <<>>
    /\ Len(ck_raw) < ck_cfg.block_max_words
    /\ \A p \in 1..Len(ck_raw) :
           ck_raw[p].type = "word" /\ ck_raw[p].speaker_id = ck_raw[1].speaker_id

\* C13 as stated: a single run of word-type tokens of one speaker with fewer
\* than max_words words is emitted as exactly one block, and an empty
\* transcript gives no block (and run returns normally).
C13_SingleRunOneBlock ==
    ck_pc = "done" =>
        /\ SingleSpeakerRun => Len(blocks) = 1
        /\ ck_raw = <<>> => blocks = <<>>

\* No word but the last lies beyond the soft limit and ends a sentence.
NoEarlySentenceEnd ==
    \A p \in 1..(Len(ck_raw) - 1) :
        p > ck_cfg.soft_word_limit => ~EndsWithPunctuation(ck_raw[p].text)

\* C13 amended: such a run is emitted as exactly one block provided that no
\* word but the last lies beyond soft_word_limit and ends with '.', '?' or
\* '!', and that the words are not all blank; an empty transcript gives no
\* block.
C13_SingleRunOneBlockBelowSoftLimit ==
    ck_pc = "done" =>
        /\ (/\ SingleSpeakerRun
            /\ NoEarlySentenceEnd
            /\ \E p \in 1..Len(ck_raw) : Strip(ck_raw[p].text) # <<>>)
           => Len(blocks) = 1
        /\ ck_raw = <<>> => blocks = <<>>

\* A run of two words whose last word lies beyond the soft limit and ends a
\* sentence came out as one block.
C13_Witness ==
    /\ ck_pc = "done"
    /\ SingleSpeakerRun
    /\ NoEarlySentenceEnd
    /\ Len(ck_raw) >= 2
    /\ Len(ck_raw) > ck_cfg.soft_word_limit
    /\ EndsWithPunctuation(ck_raw[Len(ck_raw)].text)
    /\ ck_raw[1].speaker_id # NoneSpeaker
    /\ Len(blocks) = 1

\* ------------------------------------------- specification of the matcher
Alphabet == {<<"a">>, <<"b">>, <<"c">>}     \* normalized word texts

\* Block words as OfflineIndexerService prepares them: the non-spacing items
\* of a block, whose internal ids are the even numbers.
MBlockWords(texts) == [p \in 1..Len(texts) |-> [id |-> 2 * (p - 1), text |-> texts[p]]]

\* Chunk words as OfflineIndexerService prepares them: id is the position.
MChunkWords(texts) == [p \in 1..Len(texts) |-> [id |-> p - 1, text |-> texts[p]]]

MInit ==
    /\ \E texts \in SeqsUpTo(Alphabet, MaxBlockLen) : m_block_words = MBlockWords(texts)
    /\ \E texts \in SeqsUpTo(Alphabet, MaxChunkLen) : m_chunk_words = MChunkWords(texts)
    /\ m_pc = "call"
    /\ m_result = NotFound
    /\ ChunkIdle /\ IdIdle /\ PipeIdle /\ FmtIdle /\ E2eIdle /\ IxIdle /\ PoolIdle

MFindMatch ==
    /\ m_pc = "call"
    /\ m_result' = find_match(m_chunk_words, m_block_words)
    /\ m_pc' = "returned"
    /\ UNCHANGED <<m_block_words, m_chunk_words>>
    /\ UNCHANGED <<chunkVars, idVars, pipeVars, fmtVars, e2eVars, ixVars, poolVars>>

MNext == MFindMatch

SpecMatcher == MInit /\ [][MNext]_vars

\* 0-based position in the block of the word with the given id.
MPosOfId(id) == (CHOOSE p \in 1..Len(m_block_words) : m_block_words[p].id = id) - 1

MChunkLen == Len(m_chunk_words)

\* The block words at positions s..s+k-1 named in qs equal the chunk's.
MEqualAt(s, qs) ==
    \A q \in qs : At(m_block_words, s + q).text = At(m_chunk_words, q).text

\* The chunk is the block's slice block[i..j] (0-based, inclusive).
MChunkIsSlice(i, j) ==
    TextList(m_chunk_words) = Slice(TextList(m_block_words), i, j + 1)

\* Positions of the first two and the last two words of a chunk of k words.
BoundaryPositions(k) == {q \in {0, 1, k - 2, k - 1} : 0 <= q /\ q < k}

\* C7 as stated: a returned {start, end} spans k block words that equal the
\* chunk's words, word for word, for a chunk of any length k.
C7_MatchIsWordForWord ==
    (m_pc = "returned" /\ m_result.found) =>
        LET s == MPosOfId(m_result.start_word_index)
            e == MPosOfId(m_result.end_word_index)
        IN  /\ e - s + 1 = MChunkLen
            /\ MEqualAt(s, 0..(MChunkLen - 1))

\* C7 amended: a returned {start, end} spans k block words whose first two
\* and last two words equal the chunk's first two and last two words; this
\* is a word-for-word match when k <= 4, the interior words of a chunk of
\* k >= 5 words are not compared.
C7_MatchOnBoundaryPairs ==
    (m_pc = "returned" /\ m_result.found) =>
        LET s == MPosOfId(m_result.start_word_index)
            e == MPosOfId(m_result.end_word_index)
        IN  /\ e - s + 1 = MChunkLen
            /\ MEqualAt(s, BoundaryPositions(MChunkLen))
            /\ MChunkLen <= 4 => MEqualAt(s, 0..(MChunkLen - 1))

\* A chunk of five words was matched on its boundary pairs although its
\* middle word differs from the block's.
C7_Witness ==
    /\ m_pc = "returned" /\ m_result.found
    /\ MChunkLen >= 5
    /\ ~MEqualAt(MPosOfId(m_result.start_word_index), 0..(MChunkLen - 1))

\* C8 as stated: a chunk that is the slice block[i..j] resolves to exactly
\* {block[i].id, block[j].id}.
C8_RoundTripExact ==
    m_pc = "returned" =>
        \A i, j \in 0..(Len(m_block_words) - 1) :
            (i <= j /\ MChunkIsSlice(i, j)) =>
                m_result = Match(At(m_block_words, i).id, At(m_block_words, j).id)

\* C8 amended: a chunk that is the slice block[i..j] always resolves, to k
\* words starting at or before position i whose boundary pairs equal the
\* slice's, and to exactly {block[i].id, block[j].id} when no earlier
\* position of the block carries the slice's boundary pairs.
C8_RoundTripFirstOccurrence ==
    m_pc = "returned" =>
        \A i, j \in 0..(Len(m_block_words) - 1) :
            (i <= j /\ MChunkIsSlice(i, j)) =>
                /\ m_result.found
                /\ LET s == MPosOfId(m_result.start_word_index)
                       e == MPosOfId(m_result.end_word_index)
                   IN  /\ s <= i
                       /\ e = s + (j - i)
                       /\ MEqualAt(s, BoundaryPositions(MChunkLen))
                       /\ (\A h \in 0..(i - 1) : ~MEqualAt(h, BoundaryPositions(MChunkLen)))
                              => (s = i /\ e = j)

\* A slice of two or more words that does not start the block resolved to
\* its own ids.
C8_Witness ==
    /\ m_pc = "returned"
    /\ \E i, j \in 1..(Len(m_block_words) - 1) :
          /\ i < j /\ MChunkIsSlice(i, j)
          /\ m_result = Match(At(m_block_words, i).id, At(m_block_words, j).id)

\* The reference operator of the locator: the smallest start position whose
\* boundary pairs (whose word, for a single-word chunk) equal the chunk's.
RefCandidates(chunk_words, block_words) ==
    LET k == Len(chunk_words)
        c == TextList(chunk_words)
        b == TextList(block_words)
    IN  IF k = 1 THEN {i \in 0..(Len(b) - 1) : At(b, i) = c[1]}
        ELSE {i \in 0..(Len(b) - k) :
                 /\ <<At(b, i), At(b, i + 1)>> = <<c[1], c[2]>>
                 /\ <<At(b, i + k - 2), At(b, i + k - 1)>> = <<c[k - 1], c[k]>>}

RefFindMatch(chunk_words, block_words) ==
    IF Len(chunk_words) = 0 \/ Len(block_words) = 0 THEN NotFound
    ELSE LET cand == RefCandidates(chunk_words, block_words)
         IN  IF cand = {} THEN NotFound
             ELSE Match(At(block_words, MinOf(cand)).id,
                        At(block_words, MinOf(cand) + Len(chunk_words) - 1).id)

\* C9: find_match returns what the reference operator returns on every
\* chunk/block pair.
C9_AgreesWithReference ==
    m_pc = "returned" => m_result = RefFindMatch(m_chunk_words, m_block_words)

\* A chunk of two or more words was found at a position that is not the
\* first one of the block.
C9_Witness ==
    /\ m_pc = "returned" /\ m_result.found
    /\ MChunkLen >= 2
    /\ m_result.start_word_index > 0

\* -------------------------------------- specification of the dehydration
ImClientIds == {NoId, 0, 100}     \* no id, a falsy id, an ordinary id
ImTypes == {"word", "pause", "spacing"}

\* The client item at position p (1-based) with the given id and type.
ImItem(id, type, p) ==
    [id |-> id, text |-> IF type = "word" THEN <<"a">> ELSE <<" ">>,
     start |-> 10 * (p - 1), end |-> 10 * (p - 1) + 8, type |-> type,
     speaker_id |-> "A"]

ImInit ==
    /\ \E ids \in SeqsUpTo(ImClientIds, MaxIdRawLen) :
          \E types \in [1..Len(ids) -> ImTypes] :
              im_raw = [p \in 1..Len(ids) |-> ImItem(ids[p], types[p], p)]
    /\ im_pc = "call"
    /\ im_out = IdMappingRun(<<>>)
    /\ ChunkIdle /\ MatchIdle /\ PipeIdle /\ FmtIdle /\ E2eIdle /\ IxIdle /\ PoolIdle

ImRun ==
    /\ im_pc = "call"
    /\ im_out' = IdMappingRun(im_raw)
    /\ im_pc' = "returned"
    /\ UNCHANGED im_raw
    /\ UNCHANGED <<chunkVars, matchVars, pipeVars, fmtVars, e2eVars, ixVars, poolVars>>

ImNext == ImRun

SpecIdMap == ImInit /\ [][ImNext]_vars

\* The internal id given to the client item at position p (1-based): each
\* item is followed by one synthetic space.
InternalIdOf(p) == 2 * (p - 1)

IsInjective(f) == \A a, b \in DOMAIN f : f[a] = f[b] => a = b

\* id_map has exactly the entries of the client items that carry an id, each
\* mapped to that item's original id, and the token at position k of the full
\* transcript carries internal id k.
ImEntriesExact ==
    LET id_map == im_out.id_map
        full == im_out.full_objects_transcript
    IN  /\ DOMAIN id_map = {InternalIdOf(p) : p \in {q \in 1..Len(im_raw) : im_raw[q].id # NoId}}
        /\ \A p \in 1..Len(im_raw) :
               im_raw[p].id # NoId => id_map[InternalIdOf(p)] = im_raw[p].id
        /\ Len(full) = 2 * Len(im_raw)
        /\ \A k \in 0..(Len(full) - 1) : At(full, k).id = k

\* C10 as stated: for all raw transcripts id_map is injective, has an entry
\* for every internal id whose token had an original id, and maps it to
\* exactly that original id.
C10_IdMapInjectiveAndExact ==
    im_pc = "returned" => (IsInjective(im_out.id_map) /\ ImEntriesExact)

\* C10 amended: id_map has an entry for every internal id whose token had an
\* original id and maps it to exactly that id; it is injective whenever the
\* client's non-null ids are pairwise distinct (two internal ids share an
\* original id only if the client gave that id to two tokens).
C10_IdMapExactInjectiveIfClientIdsDistinct ==
    im_pc = "returned" =>
        /\ ImEntriesExact
        /\ (\A p, q \in 1..Len(im_raw) :
                (im_raw[p].id # NoId /\ im_raw[p].id = im_raw[q].id) => p = q)
               => IsInjective(im_out.id_map)

\* Two client items with distinct ids and one without an id were dehydrated.
C10_Witness ==
    /\ im_pc = "returned"
    /\ Cardinality(DOMAIN im_out.id_map) >= 2
    /\ IsInjective(im_out.id_map)
    /\ \E p \in 1..Len(im_raw) : im_raw[p].id = NoId

\* ------------------------------------------ specification of the pipeline
MaxConcepts == 2       \* largest num_concepts_requested of a request
max_workers == 5       \* ThreadPoolExecutor(max_workers=5)
DefaultBlockMaxWords == 300
DefaultSoftRatioTenths == 8

\* The transcript of the request: three words of one speaker.
PipeRaw ==
    LET texts == <<<<"A">>, <<"b", ".">>, <<"c">>>>
    IN  [p \in 1..3 |->
            [id |-> 100 + p, text |-> texts[p], start |-> 10 * (p - 1),
             end |-> 10 * (p - 1) + 8, type |-> "word", speaker_id |-> "A"]]

\* generate_shorts, Stage 1.
PipeDehydrated == IdMappingRun(PipeRaw)

blocks_data ==
    ChunkerRun(PipeDehydrated.textual_transcript,
               [block_max_words |-> DefaultBlockMaxWords,
                soft_word_limit |-> SoftWordLimit(DefaultBlockMaxWords, DefaultSoftRatioTenths)])

\* LlmConceptGeneratorService.run: mock_concept is one dict and
\* [mock_concept] * num_concepts is a list of num_concepts references to it.
MockConceptRef == 1

mock_concept ==
    [title_id |-> "example_title_identifier",
     title |-> "An Example Click-Worthy Title",
     logline |-> "This is a one-sentence summary of the video's core angle.",
     status |-> "none", error_message |-> "none", matched_blocks |-> "none",
     script |-> <<>>, script_chunks |-> <<>>, evaluation |-> "none",
     recommendations |-> "None"]

LlmConceptGeneratorRun(num_concepts) == [i \in 1..num_concepts |-> MockConceptRef]

ConceptHeap(refs) == [r \in SeqRange(refs) |-> mock_concept]

\* What the script extractor can return for a concept: script and
\* script_chunks.  The last one is the mock of the source (its blocks
\* block_010..block_012 do not exist for this transcript).
Chunk(chunk_text, source_block_id) ==
    [chunk_text |-> chunk_text, source_block_id |-> source_block_id,
     start_word_index |-> NoId, end_word_index |-> NoId]

ExtractorOutputs ==
    {[script |-> <<"a", " ", "b", ".">>,
      script_chunks |-> <<Chunk(<<"a", " ", "b", ".">>, 0)>>],
     [script |-> <<"b", " ", "c", " ", "c", " ", "a">>,
      script_chunks |-> <<Chunk(<<"b", " ", "c">>, 0), Chunk(<<"c", " ", "a">>, 0)>>],
     [script |-> <<>>, script_chunks |-> <<>>],
     [script |-> <<"m">>,
      script_chunks |-> <<Chunk(<<"m">>, 10), Chunk(<<"m">>, 10),
                          Chunk(<<"m">>, 11), Chunk(<<"m">>, 12)>>]}

Tasks == 1..Len(pc)

Running == {i \in Tasks : pc[i] \notin {"queued", "done"}}

\* The future whose result the loop "for future in futures" waits for next:
\* the one after those already consumed.
CollectIndex(results, positions) == Len(results) + 1

\* The loop "for future in futures" returns after the first future.
AllCollectedAfterFirst(results, submitted) == Len(results) >= 1

\* The loop "for future in futures" has consumed every future.
AllCollected(results, submitted) == Len(results) = Len(submitted)

\* What Stage 1 hands to every task and to the formatter.
PipeShared ==
    [blocks_data |-> blocks_data,
     textual_transcript |-> PipeDehydrated.textual_transcript,
     full_objects_transcript |-> PipeDehydrated.full_objects_transcript,
     id_map |-> PipeDehydrated.id_map]

\* _find_indices_for_chunk written with word['text'] = normalize_word(...) on
\* the words of each source block it looks at.
BlocksNormalizedInPlace(all_blocks, script_chunks) ==
    [b \in 1..Len(all_blocks) |->
        IF \E q \in 1..Len(script_chunks) :
              /\ script_chunks[q].source_block_id = all_blocks[b].block_id
              /\ script_chunks[q].chunk_text # <<>>
        THEN [all_blocks[b] EXCEPT !.words =
                 [p \in 1..Len(@) |-> [@[p] EXCEPT !.text = normalize_word(@)]]]
        ELSE all_blocks[b]]

\* blocks_data after offline_indexer_service.run: block_lookup and the
\* normalized words are new objects, the blocks are only read.
BlocksAfterIndexing(all_blocks, script_chunks) == all_blocks

PipeInit ==
    /\ request \in 0..MaxConcepts
    /\ drv = "received"
    /\ response = 0
    /\ concepts = <<>>
    /\ rec = <<>>
    /\ pc = <<>>
    /\ future = <<>>
    /\ final_results = <<>>
    /\ collected = <<>>
    /\ client_output = <<>>
    /\ raised = {}
    /\ finish_order = <<>>
    /\ writers = <<>>
    /\ term_writes = <<>>
    /\ shared = NoShared
    /\ exc = <<>>
    /\ returned_status = <<>>
    /\ ChunkIdle /\ MatchIdle /\ IdIdle /\ FmtIdle /\ E2eIdle /\ IxIdle /\ PoolIdle

Others == <<chunkVars, matchVars, idVars, fmtVars, e2eVars, ixVars, poolVars>>

\* generate_shorts up to the concept generator: Stage 1 and Stage 2; no
\* concept ends the request.
DrvGenerate ==
    /\ drv = "received"
    /\ shared' = PipeShared
    /\ concepts' = LlmConceptGeneratorRun(request)
    /\ rec' = ConceptHeap(concepts')
    /\ writers' = [r \in DOMAIN rec' |-> {}]
    /\ term_writes' = [r \in DOMAIN rec' |-> 0]
    /\ IF concepts' = <<>>
       THEN drv' = "done" /\ response' = 200
       ELSE drv' = "submit" /\ UNCHANGED response
    /\ UNCHANGED <<request, pc, future, final_results, collected, client_output,
                   raised, finish_order, exc, returned_status>>
    /\ UNCHANGED Others

\* futures = [executor.submit(process_single_concept, c, ...) for c in concepts]
DrvSubmit ==
    /\ drv = "submit"
    /\ pc' = [i \in 1..Len(concepts) |-> "queued"]
    /\ future' = [i \in 1..Len(concepts) |-> 0]
    /\ exc' = [i \in 1..Len(concepts) |-> "none"]
    /\ returned_status' = [i \in 1..Len(concepts) |-> "none"]
    /\ drv' = "collect"
    /\ UNCHANGED <<request, response, concepts, rec, final_results, collected,
                   client_output, raised, finish_order, writers, term_writes, shared>>
    /\ UNCHANGED Others

\* A free worker thread takes the oldest queued task.
TaskStart(i) ==
    /\ pc[i] = "queued"
    /\ \A j \in Tasks : j < i => pc[j] # "queued"
    /\ Cardinality(Running) < max_workers
    /\ pc' = [pc EXCEPT ![i] = "match"]
    /\ UNCHANGED <<request, drv, response, concepts, rec, future, final_results,
                   collected, client_output, raised, finish_order, writers,
                   term_writes, shared, exc, returned_status>>
    /\ UNCHANGED Others

\* Task i assigns fields of the dict it was given and moves on.
WriteAndGo(i, new_rec, next_pc) ==
    /\ rec' = [rec EXCEPT ![concepts[i]] = new_rec]
    /\ writers' = [writers EXCEPT ![concepts[i]] = @ \cup {i}]
    /\ pc' = [pc EXCEPT ![i] = next_pc]

\* What a stage that returns normally leaves alone besides the concept.
StageFrame ==
    /\ UNCHANGED <<request, drv, response, concepts, future, final_results,
                   collected, client_output, raised, finish_order, term_writes,
                   exc, returned_status>>
    /\ UNCHANGED Others

\* Step 5a: matcher_service.run; an exception of the call to the model is
\* caught inside run, which then records no match.
StageMatch(i) ==
    /\ pc[i] = "match"
    /\ \E matched \in {"validated", "empty"} :
          WriteAndGo(i, [rec[concepts[i]] EXCEPT !.matched_blocks = matched], "extract")
    /\ UNCHANGED shared
    /\ StageFrame

\* Step 5b: script_extractor_service.run.
StageExtract(i) ==
    /\ pc[i] = "extract"
    /\ \E out \in ExtractorOutputs :
          WriteAndGo(i, [rec[concepts[i]] EXCEPT !.script = out.script,
                                                 !.script_chunks = out.script_chunks],
                     "index")
    /\ UNCHANGED shared
    /\ StageFrame

\* Step 5c: offline_indexer_service.run.
StageIndex(i) ==
    /\ pc[i] = "index"
    /\ WriteAndGo(i, [rec[concepts[i]] EXCEPT
                         !.script_chunks = OfflineIndexChunks(@, shared.blocks_data)],
                  "fallback")
    /\ shared' = [shared EXCEPT !.blocks_data =
                     BlocksAfterIndexing(@, rec[concepts[i]].script_chunks)]
    /\ StageFrame

\* Step 5d: the fallback indexer runs if a chunk has no start_word_index.
StageFallback(i) ==
    /\ pc[i] = "fallback"
    /\ IF AnyChunkUnindexed(rec[concepts[i]].script_chunks)
       THEN WriteAndGo(i, [rec[concepts[i]] EXCEPT
                              !.script_chunks = FallbackIndexChunks(@)],
                       "evaluate")
       ELSE /\ pc' = [pc EXCEPT ![i] = "evaluate"]
            /\ UNCHANGED <<rec, writers>>
    /\ UNCHANGED shared
    /\ StageFrame

\* Step 5e: the evaluator runs on a non-empty script and returns an
\* evaluation or None.
StageEvaluate(i) ==
    /\ pc[i] = "evaluate"
    /\ IF rec[concepts[i]].script # <<>>
       THEN \E evaluation \in {"mock_evaluation", "None"} :
               WriteAndGo(i, [rec[concepts[i]] EXCEPT !.evaluation = evaluation],
                          "finish")
       ELSE /\ pc' = [pc EXCEPT ![i] = "finish"]
            /\ UNCHANGED <<rec, writers>>
    /\ UNCHANGED shared
    /\ StageFrame

\* indexed_concept['status'] = 'success'; return indexed_concept
StageFinish(i) ==
    /\ pc[i] = "finish"
    /\ WriteAndGo(i, [rec[concepts[i]] EXCEPT !.status = "success"], "done")
    /\ term_writes' = [term_writes EXCEPT ![concepts[i]] = @ + 1]
    /\ future' = [future EXCEPT ![i] = concepts[i]]
    /\ returned_status' = [returned_status EXCEPT ![i] = "success"]
    /\ finish_order' = Append(finish_order, i)
    /\ UNCHANGED <<request, drv, response, concepts, final_results,
                   collected, client_output, raised, shared, exc>>
    /\ UNCHANGED Others

\* The stages in which the call of task i can raise: the lookup of the
\* stage's handler or the call to the model fails.
CanRaise(i) ==
    \/ pc[i] \in {"match", "extract"}
    \/ pc[i] = "fallback" /\ AnyChunkUnindexed(rec[concepts[i]].script_chunks)
    \/ pc[i] = "evaluate" /\ rec[concepts[i]].script # <<>>

\* The exception reaches the except clause of process_single_concept:
\* concept['status'] = 'error'.
TaskRaise(i) ==
    /\ i \in Tasks
    /\ CanRaise(i)
    /\ WriteAndGo(i, [rec[concepts[i]] EXCEPT !.status = "error"], "except")
    /\ term_writes' = [term_writes EXCEPT ![concepts[i]] = @ + 1]
    /\ exc' = [exc EXCEPT ![i] = pc[i]]
    /\ raised' = raised \cup {i}
    /\ UNCHANGED <<request, drv, response, concepts, future, final_results,
                   collected, client_output, finish_order, shared, returned_status>>
    /\ UNCHANGED Others

\* concept['error_message'] = str(e); return concept
TaskExceptReturn(i) ==
    /\ i \in Tasks
    /\ pc[i] = "except"
    /\ WriteAndGo(i, [rec[concepts[i]] EXCEPT !.error_message = exc[i]], "done")
    /\ future' = [future EXCEPT ![i] = concepts[i]]
    /\ returned_status' = [returned_status EXCEPT ![i] = rec[concepts[i]].status]
    /\ finish_order' = Append(finish_order, i)
    /\ UNCHANGED <<request, drv, response, concepts, final_results, collected,
                   client_output, raised, term_writes, shared, exc>>
    /\ UNCHANGED Others

\* final_results.append(future.result()) for the next future of the list.
DrvCollect ==
    /\ drv = "collect"
    /\ ~AllCollected(final_results, concepts)
    /\ LET k == CollectIndex(final_results, collected)
       IN  /\ pc[k] = "done"
           /\ final_results' = Append(final_results, future[k])
           /\ collected' = Append(collected, k)
    /\ UNCHANGED <<request, drv, response, concepts, rec, pc, future,
                   client_output, raised, finish_order, writers, term_writes,
                   shared, exc, returned_status>>
    /\ UNCHANGED Others

\* Stage 4: output_formatter_service.run and the 200 response.
DrvFormat ==
    /\ drv = "collect"
    /\ AllCollected(final_results, concepts)
    /\ client_output' = OutputFormatterRun([k \in 1..Len(final_results) |-> rec[final_results[k]]],
                                           shared.full_objects_transcript,
                                           shared.id_map)
    /\ response' = 200
    /\ drv' = "done"
    /\ UNCHANGED <<request, concepts, rec, pc, future, final_results, collected,
                   raised, finish_order, writers, term_writes, shared, exc,
                   returned_status>>
    /\ UNCHANGED Others

Next ==
    \/ DrvGenerate
    \/ DrvSubmit
    \/ \E i \in Tasks : TaskStart(i)
    \/ \E i \in Tasks : StageMatch(i)
    \/ \E i \in Tasks : StageExtract(i)
    \/ \E i \in Tasks : StageFallback(i)
    \/ \E i \in Tasks : StageEvaluate(i)
    \/ \E i \in Tasks : StageFinish(i)
    \/ \E i \in Tasks : TaskRaise(i)
    \/ \E i \in Tasks : TaskExceptReturn(i)
    \/ DrvCollect
    \/ \E i \in Tasks : StageIndex(i)
    \/ DrvFormat

Spec == PipeInit /\ [][Next]_vars

Identity(n) == [i \in 1..n |-> i]

\* C1: when exactly one task of a request raised, the result of that concept
\* has status error and each of the other results has status success.
C1_OneFailureIsolated ==
    (drv = "done" /\ concepts # <<>> /\ Cardinality(raised) = 1) =>
        /\ Len(client_output) = Len(concepts)
        /\ \A i \in 1..Len(client_output) :
               client_output[i].status = IF i \in raised THEN "error" ELSE "success"

\* C2: every concept dict is written by at most one task of the request and
\* its status is set to success or error at most once.
C2_OneWriterPerConcept ==
    \A r \in DOMAIN rec :
        Cardinality(writers[r]) <= 1 /\ term_writes[r] <= 1

\* C3: the futures are consumed in submission order whatever order the tasks
\* return in, and the i-th result sent to the client is the formatted
\* result of the i-th submitted concept.
C3_ResultsInSubmissionOrder ==
    /\ collected = Identity(Len(collected))
    /\ Len(final_results) = Len(collected)
    /\ \A i \in 1..Len(final_results) : final_results[i] = concepts[i]
    /\ (drv = "done" /\ concepts # <<>>) =>
           /\ Len(client_output) = Len(concepts)
           /\ \A i \in 1..Len(concepts) :
                  client_output[i] = FormatConcept(rec[concepts[i]],
                                         PipeDehydrated.full_objects_transcript,
                                         PipeDehydrated.id_map)

\* A request of several concepts has been answered although its tasks did
\* not return in submission order and one of them had raised.
C3_Witness ==
    /\ drv = "done"
    /\ Len(concepts) >= 2
    /\ finish_order # Identity(Len(concepts))
    /\ raised # {}
    /\ Len(client_output) = Len(concepts)

\* ---------------------------------------- specification of the formatter
MaxFmtRawLen == 2      \* longest client transcript given to the formatter
MaxFmtChunks == 2      \* most script_chunks of the formatted concept

\* The shapes of a client item that the formatter can tell apart: its type
\* and whether the client gave it an id.
FmtShapes ==
    {[type |-> "word", has_id |-> TRUE], [type |-> "word", has_id |-> FALSE],
     [type |-> "pause", has_id |-> TRUE]}

FmtItem(sh, p) ==
    [id |-> IF sh.has_id THEN 100 + p ELSE NoId, text |-> <<"a">>,
     start |-> 10 * (p - 1), end |-> 10 * (p - 1) + 8, type |-> sh.type,
     speaker_id |-> "A"]

\* The pairs of indices a chunk can carry when it reaches the formatter: none
\* (None or no key), the internal ids of the first item, of its synthetic
\* space and of the second item, or the ids written by the fallback indexer.
FmtChunkIndices ==
    ({NoId, 0, 1, 2} \X {NoId, 0, 1, 2}) \cup {<<MockStartId, MockEndId>>}

FmtChunk(pair) ==
    [chunk_text |-> <<"a">>, source_block_id |-> 0,
     start_word_index |-> pair[1], end_word_index |-> pair[2]]

\* The terminal states in which process_single_concept returns a concept.
FmtOutcomes ==
    {[status |-> "success", error_message |-> "none"],
     [status |-> "error", error_message |-> "none"],
     [status |-> "error", error_message |-> "extract"]}

FmtInit ==
    /\ \E shapes \in SeqsUpTo(FmtShapes, MaxFmtRawLen) :
          f_raw = [p \in 1..Len(shapes) |-> FmtItem(shapes[p], p)]
    /\ \E pairs \in SeqsUpTo(FmtChunkIndices, MaxFmtChunks), o \in FmtOutcomes :
          f_results = <<[mock_concept EXCEPT
                            !.status = o.status,
                            !.error_message = o.error_message,
                            !.script = <<"a">>,
                            !.script_chunks = [q \in 1..Len(pairs) |-> FmtChunk(pairs[q])]]>>
    /\ f_full = <<>>
    /\ f_id_map = <<>>
    /\ f_pc = "raw"
    /\ f_out = <<>>
    /\ ChunkIdle /\ MatchIdle /\ IdIdle /\ PipeIdle /\ E2eIdle /\ IxIdle /\ PoolIdle

\* generate_shorts, Stage 1: the formatter gets the full transcript and the
\* id map of the dehydration.
FmtDehydrate ==
    /\ f_pc = "raw"
    /\ LET out == IdMappingRun(f_raw)
       IN  /\ f_full' = out.full_objects_transcript
           /\ f_id_map' = out.id_map
    /\ f_pc' = "call"
    /\ UNCHANGED <<f_raw, f_results, f_out>>
    /\ UNCHANGED <<chunkVars, matchVars, idVars, pipeVars, e2eVars, ixVars, poolVars>>

\* generate_shorts, Stage 4: output_formatter_service.run.
FmtRun ==
    /\ f_pc = "call"
    /\ f_out' = OutputFormatterRun(f_results, f_full, f_id_map)
    /\ f_pc' = "returned"
    /\ UNCHANGED <<f_raw, f_full, f_id_map, f_results>>
    /\ UNCHANGED <<chunkVars, matchVars, idVars, pipeVars, e2eVars, ixVars, poolVars>>

FmtNext == FmtDehydrate \/ FmtRun

SpecFormatter == FmtInit /\ [][FmtNext]_vars

\* The chunks of a concept whose indices both name a token of the full
\* transcript, the first not after the second.
FmtEmittable(chunk) ==
    /\ chunk.start_word_index \in 0..(2 * Len(f_raw) - 1)
    /\ chunk.end_word_index \in 0..(2 * Len(f_raw) - 1)
    /\ chunk.start_word_index <= chunk.end_word_index

\* The client ids of the client's own items whose internal id (twice the
\* 0-based position) lies in start..end, in transcript order.
ClientIdsBetween(start, end) ==
    LET ps == SelectSeq(Identity(Len(f_raw)),
                        LAMBDA p : /\ 2 * (p - 1) >= start
                                   /\ 2 * (p - 1) <= end
                                   /\ f_raw[p].id # NoId)
    IN  [q \in 1..Len(ps) |-> f_raw[ps[q]].id]

\* C11: the internal id of a synthetic spacing token (an odd id) is never a
\* key of id_map, and each list of chunk_index_lists holds exactly the client
\* ids of the client's own items inside the chunk's slice, in order; nothing
\* is emitted for the synthetic tokens of the slice.
C11_OnlyClientIdsEmitted ==
    /\ \A k \in DOMAIN f_id_map : k % 2 = 0
    /\ (f_pc = "returned" /\ f_results[1].status = "success") =>
           LET kept == SelectSeq(f_results[1].script_chunks, FmtEmittable)
           IN  f_out[1].chunk_index_lists =
                   [q \in 1..Len(kept) |->
                       ClientIdsBetween(kept[q].start_word_index,
                                        kept[q].end_word_index)]

\* A chunk that spans the first item, its synthetic space and a second item
\* without client id has been formatted.
C11_Witness ==
    /\ f_pc = "returned"
    /\ f_results[1].status = "success"
    /\ Len(f_raw) = 2 /\ f_raw[1].id # NoId /\ f_raw[2].id = NoId
    /\ Len(f_results[1].script_chunks) = 1
    /\ f_results[1].script_chunks[1].start_word_index = 0
    /\ f_results[1].script_chunks[1].end_word_index = 2
    /\ f_out[1].chunk_index_lists = <<<<f_raw[1].id>>>>

\* C18: a concept with status error is formatted as exactly title, title_id,
\* logline, status and error_message, whatever chunks it carries.
C18_ErrorConceptPassedThrough ==
    (f_pc = "returned" /\ f_results[1].status = "error") =>
        f_out = <<[title |-> f_results[1].title,
                   title_id |-> f_results[1].title_id,
                   logline |-> f_results[1].logline,
                   status |-> "error",
                   error_message |->
                       IF f_results[1].error_message = "none"
                       THEN "An unknown error occurred."
                       ELSE f_results[1].error_message]>>

\* A failed concept that carries a chunk with valid indices was formatted.
C18_Witness ==
    /\ f_pc = "returned"
    /\ f_results[1].status = "error"
    /\ f_results[1].error_message # "none"
    /\ \E q \in 1..Len(f_results[1].script_chunks) :
           FmtEmittable(f_results[1].script_chunks[q])
    /\ DOMAIN f_out[1] = {"title", "title_id", "logline", "status", "error_message"}

\* ------------------------- specification of one concept from end to end
MaxE2EWords == 4       \* longest one-speaker transcript of the request

E2EWordTexts == {<<"a">>, <<"A">>, <<"b", ".">>, <<"c">>}

E2eItem(text, p) ==
    [id |-> 100 + p, text |-> text, start |-> 10 * (p - 1),
     end |-> 10 * (p - 1) + 8, type |-> "word", speaker_id |-> "A"]

E2eInit ==
    /\ \E n \in 1..MaxE2EWords :
          /\ \E texts \in [1..n -> E2EWordTexts] :
                e_raw = [p \in 1..n |-> E2eItem(texts[p], p)]
          /\ \E i, j \in 1..n : i <= j /\ e_sel = <<i, j>>
    /\ e_pc = "dehydrate"
    /\ e_dehydrated = IdMappingRun(<<>>)
    /\ e_blocks = <<>>
    /\ e_results = <<>>
    /\ e_out = <<>>
    /\ ChunkIdle /\ MatchIdle /\ IdIdle /\ PipeIdle /\ FmtIdle /\ IxIdle /\ PoolIdle

\* generate_shorts, Stage 1: id_mapping_service.run.
E2eDehydrate ==
    /\ e_pc = "dehydrate"
    /\ e_dehydrated' = IdMappingRun(e_raw)
    /\ e_pc' = "segment"
    /\ UNCHANGED <<e_raw, e_sel, e_blocks, e_results, e_out>>
    /\ UNCHANGED <<chunkVars, matchVars, idVars, pipeVars, fmtVars, ixVars, poolVars>>

\* generate_shorts, Stage 1: chunker_service.run with the default limits.
E2eSegment ==
    /\ e_pc = "segment"
    /\ e_blocks' = ChunkerRun(e_dehydrated.textual_transcript,
                     [block_max_words |-> DefaultBlockMaxWords,
                      soft_word_limit |-> SoftWordLimit(DefaultBlockMaxWords,
                                                        DefaultSoftRatioTenths)])
    /\ e_pc' = "extract"
    /\ UNCHANGED <<e_raw, e_sel, e_dehydrated, e_results, e_out>>
    /\ UNCHANGED <<chunkVars, matchVars, idVars, pipeVars, fmtVars, ixVars, poolVars>>

\* The text of the textual transcript from word i to word j (1-based), the
\* synthetic spaces between them included.
VerbatimText(textual, i, j) ==
    JoinTexts(Slice(textual, 2 * (i - 1), 2 * (j - 1) + 1))

\* Steps 5a and 5b for a concept whose script is one chunk, the verbatim
\* text of words i..j of the transcript's block.
E2eExtract ==
    /\ e_pc = "extract"
    /\ LET quote == VerbatimText(e_dehydrated.textual_transcript, e_sel[1], e_sel[2])
       IN  e_results' = <<[mock_concept EXCEPT
                              !.matched_blocks = "validated",
                              !.script = quote,
                              !.script_chunks = <<Chunk(quote, e_blocks[1].block_id)>>]>>
    /\ e_pc' = "index"
    /\ UNCHANGED <<e_raw, e_sel, e_dehydrated, e_blocks, e_out>>
    /\ UNCHANGED <<chunkVars, matchVars, idVars, pipeVars, fmtVars, ixVars, poolVars>>

\* Steps 5c to 5f: offline_indexer_service.run, the fallback indexer when a
\* chunk is left without start_word_index, the evaluation and status.
E2eIndex ==
    /\ e_pc = "index"
    /\ LET indexed == OfflineIndexChunks(e_results[1].script_chunks, e_blocks)
           final == IF AnyChunkUnindexed(indexed)
                    THEN FallbackIndexChunks(indexed) ELSE indexed
       IN  e_results' = <<[e_results[1] EXCEPT !.script_chunks = final,
                                               !.evaluation = "mock_evaluation",
                                               !.status = "success"]>>
    /\ e_pc' = "format"
    /\ UNCHANGED <<e_raw, e_sel, e_dehydrated, e_blocks, e_out>>
    /\ UNCHANGED <<chunkVars, matchVars, idVars, pipeVars, fmtVars, ixVars, poolVars>>

\* generate_shorts, Stage 4: output_formatter_service.run.
E2eFormat ==
    /\ e_pc = "format"
    /\ e_out' = OutputFormatterRun(e_results, e_dehydrated.full_objects_transcript,
                                   e_dehydrated.id_map)
    /\ e_pc' = "done"
    /\ UNCHANGED <<e_raw, e_sel, e_dehydrated, e_blocks, e_results>>
    /\ UNCHANGED <<chunkVars, matchVars, idVars, pipeVars, fmtVars, ixVars, poolVars>>

E2eNext == E2eDehydrate \/ E2eSegment \/ E2eExtract \/ E2eIndex \/ E2eFormat

SpecE2E == E2eInit /\ [][E2eNext]_vars

E2eCarriesQuote(s) ==
    LET k == e_sel[2] - e_sel[1] + 1
    IN  /\ s + k - 1 <= Len(e_raw)
        /\ \A off \in {0, 1, k - 2, k - 1} \cap 0..(k - 1) :
               normalize_word(e_raw[s + off].text)
                   = normalize_word(e_raw[e_sel[1] + off].text)

MaxIxChunks == 2       \* most script_chunks of the first concept

\* What a chunk handed to the indexer can carry: a quote found in the block,
\* a text that is not in the block, no text, a number; as source an existing
\* block, an unknown block, none, a list.
IxTexts == {<<"a", " ", "b", ".">>, <<"c", " ", "a">>, <<>>, NumberText}
IxBlockIds == {0, 10, NoBlockId, ListBlockId}

IxChunks == {Chunk(text, block_id) : text \in IxTexts, block_id \in IxBlockIds}

\* scripts_data: a concept with any chunks, alone or followed by a concept
\* with one chunk that quotes the block.
IxSecondConcept ==
    [mock_concept EXCEPT !.script_chunks = <<Chunk(<<"b", ".", " ", "c">>, 0)>>]

IxInit ==
    /\ \E chunks \in SeqsUpTo(IxChunks, MaxIxChunks), followers \in {<<>>, <<IxSecondConcept>>} :
          ix_scripts = <<[mock_concept EXCEPT !.script_chunks = chunks]>> \o followers
    /\ ix_pc = "call"
    /\ ix_out = <<>>
    /\ ChunkIdle /\ MatchIdle /\ IdIdle /\ PipeIdle /\ FmtIdle /\ E2eIdle /\ PoolIdle

\* offline_indexer_service.run(scripts_data, blocks_data) for the blocks of
\* the request's transcript.
IxRun ==
    /\ ix_pc = "call"
    /\ LET out == OfflineIndexerRun(ix_scripts, blocks_data)
       IN  /\ ix_out' = out.scripts_data
           /\ ix_pc' = IF out.raised THEN "raised" ELSE "returned"
    /\ UNCHANGED ix_scripts
    /\ UNCHANGED <<chunkVars, matchVars, idVars, pipeVars, fmtVars, e2eVars, poolVars>>

IxNext == IxRun

SpecIndexer == IxInit /\ [][IxNext]_vars

\* A chunk the claim expects to be left without indices: no source block id,
\* an unknown source block, no text, a text that is not in the block, or
\* values on which the processing throws.
IxLeftAlone(chunk) ==
    \/ chunk.source_block_id \in {NoBlockId, 10, ListBlockId}
    \/ chunk.chunk_text \in {<<>>, <<"c", " ", "a">>, NumberText}

SpecFair == Spec /\ WF_vars(Next)

\* C14: a task whose stage raised runs no later stage and returns (instead of
\* raising) the concept with status error, never with status success.
C14_FailedUnitReturnsError ==
    \A i \in raised :
        /\ pc[i] \in {"except", "done"}
        /\ pc[i] = "done" =>
               /\ future[i] = concepts[i]
               /\ returned_status[i] = "error"

\* C15: when the request has been answered, the answer is 200 with one
\* result per concept, and every concept in whose block matching, script
\* extraction, fallback indexing or evaluation an exception was raised has
\* status error and a message in its result.
C15_StageExceptionsRecorded ==
    (drv = "done" /\ concepts # <<>>) =>
        /\ response = 200
        /\ Len(client_output) = Len(concepts)
        /\ \A i \in 1..Len(concepts) :
               (i \in raised \/ rec[concepts[i]].matched_blocks = "empty") =>
                   /\ client_output[i].status = "error"
                   /\ client_output[i].error_message # "An unknown error occurred."

\* C16: when a task leaves the fallback step, the fallback indexer was
\* skipped (the concept is as it was and the task goes on to the evaluation)
\* exactly if no chunk lacked start_word_index, and every chunk that carried
\* start_word_index is as it was.
C16_FallbackOnlyForUnresolved ==
    [][\A i \in 1..Len(pc) :
          (pc[i] = "fallback" /\ pc'[i] # "fallback") =>
              LET before == rec[concepts[i]].script_chunks
                  after == rec'[concepts[i]].script_chunks
              IN  /\ (rec' = rec /\ pc'[i] = "evaluate")
                         <=> (\A q \in 1..Len(before) : before[q].start_word_index # NoId)
                  /\ Len(after) = Len(before)
                  /\ \A q \in 1..Len(before) :
                         before[q].start_word_index # NoId => after[q] = before[q]]_vars

\* A concept left the fallback step with one chunk indexed by the offline
\* indexer and one by the fallback indexer.
C16_Witness ==
    \E i \in 1..Len(pc) :
        /\ pc[i] = "evaluate"
        /\ \E q1, q2 \in 1..Len(rec[concepts[i]].script_chunks) :
              /\ rec[concepts[i]].script_chunks[q1].start_word_index >= 0
              /\ rec[concepts[i]].script_chunks[q2].start_word_index = MockStartId

\* C19: once Stage 1 has built them, the block list with the words of its
\* blocks, the two dehydrated transcripts and the id map keep their value
\* through every step of every task.
C19_SharedDataUnchanged ==
    drv # "received" => shared = PipeShared

\* A task has indexed a chunk against the blocks and has returned.
C19_Witness ==
    \E i \in 1..Len(pc) :
        /\ pc[i] = "done"
        /\ returned_status[i] = "success"
        /\ \E q \in 1..Len(rec[concepts[i]].script_chunks) :
              rec[concepts[i]].script_chunks[q].start_word_index >= 0
        /\ shared = PipeShared

\* C20: the response of a request that submitted tasks exists only when
\* every task has returned with the status of its concept set, and once the
\* tasks are submitted the request is eventually answered 200 with one result
\* per submitted concept.
C20_ResponseAfterAllUnits ==
    /\ []((response # 0 /\ concepts # <<>>) =>
             /\ Len(pc) = Len(concepts)
             /\ \A i \in 1..Len(pc) :
                    pc[i] = "done" /\ returned_status[i] \in {"success", "error"})
    /\ (drv = "collect") ~>
           (drv = "done" /\ response = 200 /\ Len(client_output) = Len(concepts))

\* A request of two concepts was answered after a task had raised.
C20_Witness ==
    /\ drv = "done"
    /\ response = 200
    /\ Len(concepts) = 2
    /\ raised # {}
    /\ Len(client_output) = 2

\* C23: trailing whitespace stays with the block it follows: no emitted
\* block after the first begins with a spacing token, whatever the client's
\* transcript was (pauses, spacing tokens of the client).  A block that
\* follows a speaker change begins with the word that changed the speaker,
\* so a leading spacing token can only follow a boundary of the soft-limit or
\* hard-limit rule.
C23_NextBlockNeverStartsWithSpacing ==
    \A b \in 2..Len(blocks) : blocks[b].words[1].type # "spacing"

\* Start positions (0-based) at which the chunk's texts occur in the block
\* word for word.
MTrueOccurrences ==
    {h \in 0..(Len(m_block_words) - MChunkLen) : MEqualAt(h, 0..(MChunkLen - 1))}

\* C28: completeness of the locator: when the chunk's word texts occur as a
\* contiguous run somewhere in the block, find_match returns a match, and the
\* start it returns is at or before the first true occurrence.
C28_LocatorComplete ==
    (m_pc = "returned" /\ MChunkLen >= 1 /\ MTrueOccurrences # {}) =>
        /\ m_result.found
        /\ MPosOfId(m_result.start_word_index) <= MinOf(MTrueOccurrences)

\* A chunk of two or more words whose first true occurrence is not at the
\* block's first position was found.
C28_Witness ==
    /\ m_pc = "returned" /\ m_result.found
    /\ MChunkLen >= 2
    /\ MTrueOccurrences # {}
    /\ MinOf(MTrueOccurrences) >= 1

\* C29: for a chunk of one to four words every word is compared, so a
\* returned match is a word-for-word occurrence and starts at the first true
\* occurrence; a returned range whose words differ from the chunk's exists
\* only for chunks of five or more words.
C29_ShortChunksExact ==
    (m_pc = "returned" /\ m_result.found) =>
        LET s == MPosOfId(m_result.start_word_index)
        IN  /\ MChunkLen <= 4 => (s \in MTrueOccurrences /\ s = MinOf(MTrueOccurrences))
            /\ s \notin MTrueOccurrences => MChunkLen >= 5

\* A chunk of four words was found at a position that is not the first one
\* of the block.
C29_Witness ==
    /\ m_pc = "returned" /\ m_result.found
    /\ MChunkLen = 4
    /\ MPosOfId(m_result.start_word_index) >= 1

\* C25: in the full transcript returned by run every synthetic spacing token
\* (the token after the client item at position p) has start = end = the end
\* time of that client item: the gap-closing adjustment of the textual
\* transcript leaves the full transcript's tokens as they were built.
C25_FullTranscriptSpacingUntouched ==
    im_pc = "returned" =>
        \A p \in 1..Len(im_raw) :
            LET sp == At(im_out.full_objects_transcript, InternalIdOf(p) + 1)
            IN  /\ sp.type = "spacing"
                /\ sp.start = im_raw[p].end
                /\ sp.end = im_raw[p].end

\* Sum of the durations of the slices of the given chunks in the full
\* transcript.
RECURSIVE FmtDurationOf(_)
FmtDurationOf(chunks) ==
    IF chunks = <<>> THEN 0
    ELSE (At(f_full, Head(chunks).end_word_index).end
            - At(f_full, Head(chunks).start_word_index).start)
         + FmtDurationOf(Tail(chunks))

\* C26: for a success concept the formatter returns, and a chunk whose
\* start_word_index or end_word_index is missing, is not an id of the full
\* transcript (such as the ids written by the fallback indexer) or whose
\* start lies after its end is left out of script_chunks and
\* chunk_index_lists and adds nothing to duration_seconds; every other chunk
\* is formatted, in order.
C26_UnresolvableChunksSkipped ==
    (f_pc = "returned" /\ f_results[1].status = "success") =>
        LET kept == SelectSeq(f_results[1].script_chunks, FmtEmittable)
        IN  /\ Len(f_out) = 1
            /\ f_out[1].status = "success"
            /\ Len(f_out[1].script_chunks) = Len(kept)
            /\ Len(f_out[1].chunk_index_lists) = Len(kept)
            /\ \A q \in 1..Len(kept) :
                   /\ f_out[1].script_chunks[q].chunk_text = kept[q].chunk_text
                   /\ f_out[1].script_chunks[q].start_word_index
                          = IdMapGet(f_id_map, kept[q].start_word_index)
                   /\ f_out[1].script_chunks[q].end_word_index
                          = IdMapGet(f_id_map, kept[q].end_word_index)
            /\ f_out[1].duration_seconds = FmtDurationOf(kept)

\* A concept whose first chunk has its start after its end and whose second
\* chunk is resolvable was formatted; so was one whose first chunk carries
\* the ids of the fallback indexer.
C26_Witness ==
    /\ f_pc = "returned"
    /\ f_results[1].status = "success"
    /\ Len(f_results[1].script_chunks) = 2
    /\ LET first == f_results[1].script_chunks[1]
       IN  \/ first.start_word_index = 2 /\ first.end_word_index = 0
           \/ first.start_word_index = MockStartId
    /\ FmtEmittable(f_results[1].script_chunks[2])
    /\ Len(f_out[1].script_chunks) = 1
    /\ f_out[1].duration_seconds > 0

\* The ids the client gave to its items.
FmtClientIds == {f_raw[p].id : p \in 1..Len(f_raw)} \ {NoId}

\* C30: every chunk the formatter emits in script_chunks carries a
\* start_word_index and an end_word_index that are original client ids,
\* never a null reference: a resolved chunk whose start or end token has no
\* entry in id_map is not emitted.
C30_EmittedChunksCarryClientIds ==
    (f_pc = "returned" /\ f_results[1].status = "success") =>
        \A q \in 1..Len(f_out[1].script_chunks) :
            /\ f_out[1].script_chunks[q].start_word_index \in FmtClientIds
            /\ f_out[1].script_chunks[q].end_word_index \in FmtClientIds

\* C24: in every emitted block the only word-type token whose position among
\* the block's words is greater than soft_word_limit and whose trimmed text
\* ends in '.', '?' or '!' is the block's last word-type token.
C24_BlockEndsAtFirstSentenceEnd ==
    \A b \in 1..Len(blocks) :
        LET ws == ActualWords(blocks[b].words)
        IN  \A q \in 1..Len(ws) :
                (q > ck_cfg.soft_word_limit /\ EndsWithPunctuation(ws[q].text))
                    => q = Len(ws)

\* 0-based position in the textual transcript of the token with internal id.
CkPosOfId(id) == (CHOOSE p \in 1..Len(ck_words) : ck_words[p].id = id) - 1

\* The token slices of the emitted blocks, one after the other.
RECURSIVE EmittedTokens(_)
EmittedTokens(bs) ==
    IF bs = <<>> THEN <<>>
    ELSE Head(bs).words \o EmittedTokens(Tail(bs))

\* In every state of the block loop _find_block_end returns an index at or
\* after the cursor and inside the transcript, so the cursor increases.
CkEndIndexAdvances ==
    (ck_pc = "chunking" /\ current_word_index < Len(ck_words)) =>
        LET end_index == FindBlockEnd(ck_words, current_word_index, ck_cfg)
        IN  current_word_index <= end_index /\ end_index < Len(ck_words)

\* C27 as stated: each iteration returns an end index at or after the
\* cursor, and the slices of the emitted blocks are contiguous, do not
\* overlap and cover the whole index range the loop has passed (the whole
\* input when run has returned).
C27_EmittedSlicesCoverInput ==
    /\ CkEndIndexAdvances
    /\ ck_pc \in {"chunking", "done"} =>
           /\ current_word_index <= Len(ck_words)
           /\ EmittedTokens(blocks) = Slice(ck_words, 0, current_word_index)

\* C27 amended: each iteration returns an end index at or after the cursor;
\* every emitted block is a contiguous slice of the transcript that begins
\* at or after the end of the block before it and ends before the cursor;
\* the tokens the loop has passed that are in no block belong to discarded
\* segments, whose texts are all blank.
C27_EmittedSlicesDisjointGapsBlank ==
    /\ CkEndIndexAdvances
    /\ ck_pc \in {"chunking", "done"} =>
           /\ current_word_index <= Len(ck_words)
           /\ ck_pc = "done" => current_word_index = Len(ck_words)
           /\ \A b \in 1..Len(blocks) :
                  LET first == CkPosOfId(blocks[b].words[1].id)
                      after == first + Len(blocks[b].words)
                  IN  /\ blocks[b].words = Slice(ck_words, first, after)
                      /\ after <= current_word_index
                      /\ b < Len(blocks) =>
                             after <= CkPosOfId(blocks[b + 1].words[1].id)
           /\ \A k \in 0..(current_word_index - 1) :
                  At(ck_words, k) \notin SeqRange(EmittedTokens(blocks))
                      => Strip(At(ck_words, k).text) = <<>>

\* Run has returned with a block emitted and a later segment discarded.
C27_Witness ==
    /\ ck_pc = "done"
    /\ Len(blocks) >= 1
    /\ Len(EmittedTokens(blocks)) < Len(ck_words)
    /\ At(ck_words, Len(ck_words) - 1) \notin SeqRange(EmittedTokens(blocks))

\* ------------------------------ specification of the pool of concept units
MaxPoolUnits == 6      \* most concepts the generator returns for one request

PoolUnits == 1..Len(pl_pc)

\* The units a worker thread is executing.
PoolExecuting == {i \in PoolUnits : pl_pc[i] \in {"started", "calling"}}

\* ThreadPoolExecutor without a limit on its threads.
FreeWorkerUnbounded(executing) == TRUE

\* ThreadPoolExecutor(max_workers=1)
FreeWorkerSingle(executing) == Cardinality(executing) < 1

\* ThreadPoolExecutor(max_workers=5): a submitted unit gets a thread while
\* fewer than max_workers threads are busy.
FreeWorker(executing) == Cardinality(executing) < max_workers

PoolInit ==
    /\ pl_units \in 0..MaxPoolUnits
    /\ pl_stuck \in 0..pl_units
    /\ pl_pc = <<>>
    /\ pl_drv = "generated"
    /\ pl_collected = 0
    /\ ChunkIdle /\ MatchIdle /\ IdIdle /\ PipeIdle /\ FmtIdle /\ E2eIdle /\ IxIdle

PoolOthers == <<chunkVars, matchVars, idVars, pipeVars, fmtVars, e2eVars, ixVars>>

\* "if not concepts: return ... 200", else every concept is submitted.
PoolSubmit ==
    /\ pl_drv = "generated"
    /\ IF pl_units = 0
       THEN pl_drv' = "done" /\ UNCHANGED pl_pc
       ELSE /\ pl_pc' = [i \in 1..pl_units |-> "queued"]
            /\ pl_drv' = "collect"
    /\ UNCHANGED <<pl_units, pl_stuck, pl_collected>>
    /\ UNCHANGED PoolOthers

\* A worker thread takes the oldest queued unit and enters
\* process_single_concept.
PoolStart(i) ==
    /\ pl_pc[i] = "queued"
    /\ \A j \in PoolUnits : j < i => pl_pc[j] # "queued"
    /\ FreeWorker(PoolExecuting)
    /\ pl_pc' = [pl_pc EXCEPT ![i] = "started"]
    /\ UNCHANGED <<pl_units, pl_stuck, pl_drv, pl_collected>>
    /\ UNCHANGED PoolOthers

\* The unit calls an external collaborator (the first one is the matcher's).
PoolCall(i) ==
    /\ pl_pc[i] = "started"
    /\ pl_pc' = [pl_pc EXCEPT ![i] = "calling"]
    /\ UNCHANGED <<pl_units, pl_stuck, pl_drv, pl_collected>>
    /\ UNCHANGED PoolOthers

\* The unit raises before its call (the lookup of its handler fails) and
\* returns through the except clause.
PoolFail(i) ==
    /\ pl_pc[i] = "started"
    /\ pl_pc' = [pl_pc EXCEPT ![i] = "returned"]
    /\ UNCHANGED <<pl_units, pl_stuck, pl_drv, pl_collected>>
    /\ UNCHANGED PoolOthers

\* The external call returns or raises and the unit runs to its return, with
\* status success or error; the call of the stuck unit never does.
PoolCallReturns(i) ==
    /\ pl_pc[i] = "calling"
    /\ i # pl_stuck
    /\ pl_pc' = [pl_pc EXCEPT ![i] = "returned"]
    /\ UNCHANGED <<pl_units, pl_stuck, pl_drv, pl_collected>>
    /\ UNCHANGED PoolOthers

\* for future in futures: final_results.append(future.result())
PoolCollect ==
    /\ pl_drv = "collect"
    /\ pl_collected < pl_units
    /\ pl_pc[pl_collected + 1] = "returned"
    /\ pl_collected' = pl_collected + 1
    /\ UNCHANGED <<pl_units, pl_stuck, pl_pc, pl_drv>>
    /\ UNCHANGED PoolOthers

\* Stage 4 and the 200 response.
PoolRespond ==
    /\ pl_drv = "collect"
    /\ pl_collected = pl_units
    /\ pl_drv' = "done"
    /\ UNCHANGED <<pl_units, pl_stuck, pl_pc, pl_collected>>
    /\ UNCHANGED PoolOthers

PoolNext ==
    \/ PoolSubmit
    \/ \E i \in PoolUnits : PoolStart(i)
    \/ \E i \in PoolUnits : PoolCall(i)
    \/ \E i \in PoolUnits : PoolFail(i)
    \/ \E i \in PoolUnits : PoolCallReturns(i)
    \/ PoolCollect
    \/ PoolRespond

SpecPool == PoolInit /\ [][PoolNext]_vars

\* Worker threads that can take a step do so and the request handler goes on
\* when the future it waits for is done.
SpecPoolFair == SpecPool /\ WF_vars(PoolNext)

\* C21: when the external call of one unit never returns, every other
\* submitted unit, the ones queued behind the pool limit included, eventually
\* returns its concept with a terminal status.
C21_OtherUnitsTerminate ==
    \A i \in 1..MaxPoolUnits :
        (pl_drv = "collect" /\ pl_stuck # 0 /\ i <= pl_units /\ i # pl_stuck)
            ~> (i \in PoolUnits /\ pl_pc[i] = "returned")

\* More units than workers were submitted, the stuck unit is still in its
\* call and every other unit has ended.
C21_Witness ==
    /\ pl_drv = "collect"
    /\ pl_units > max_workers
    /\ pl_stuck # 0
    /\ pl_pc[pl_stuck] = "calling"
    /\ \A i \in PoolUnits : i # pl_stuck => pl_pc[i] = "returned"

\* C22: at every moment of the parallel stage at most max_workers (5) units
\* are executing, hence at most 5 external calls of the request are in
\* flight, however many concepts were submitted.
C22_AtMostPoolSizeExecuting ==
    /\ Cardinality(PoolExecuting) <= max_workers
    /\ Cardinality({i \in PoolUnits : pl_pc[i] = "calling"}) <= max_workers

\* Five units are in their external call while a sixth waits in the queue.
C22_Witness ==
    /\ Cardinality({i \in PoolUnits : pl_pc[i] = "calling"}) = max_workers
    /\ \E i \in PoolUnits : pl_pc[i] = "queued"
====
